---- MODULE Spec2Model ----
(***************************************************************************)
(* A model of tsjetdb, a read-only reader of JET3/JET4 (.mdb) files.       *)
(*                                                                         *)
(* The file on disk is a sparse byte array (absent offsets hold 0x00).     *)
(* Every decoder is modelled at the byte offsets the source reads, with    *)
(* the exceptions the source can raise (binary-parser assertions,          *)
(* out-of-range reads, property access on undefined, closed descriptor).   *)
(* The handle is the JetDb object: config, userTables, schema.             *)
(***************************************************************************)
EXTENDS Integers, Sequences, FiniteSets, TLC

VARIABLES
    file,     \* the bytes of the database file: [len, b] with b sparse
    scn,      \* the logical content the file was written from (ghost)
    fd,       \* BufferReader.#fh: "none" | "open" | "closed"
    pc,       \* the caller: "new" (before new JetDb), "ready", "threw"
    db,       \* the JetDb object: [config, userTables, schema]
    initErr,  \* the promise returned by the async init(): NoErr or its rejection
    nClose,   \* how many times close() has been called on the handle
    last      \* the last public call: [op, arg, ok, val, err, reads, short]

vars == <<file, scn, fd, pc, db, initErr, nClose, last>>

----------------------------------------------------------------------------
(* Results of calls that may throw.  reads is the sequence of page indices  *)
(* handed to readBuffer; short tells whether some read got fewer bytes than *)
(* it asked for.                                                            *)

Err(kind, msg, arg) == [kind |-> kind, msg |-> msg, arg |-> arg]
NoErr == Err("none", "", 0)
RangeError == Err("RangeError", "out of range", 0)
AssertionError(field) == Err("Error", "Assertion error", 0) @@ [field |-> field]
TypeErrorUndefined(prop) == Err("TypeError", "Cannot read properties of undefined", 0) @@ [field |-> prop]
EBADF == Err("Error", "EBADF: bad file descriptor", 0)

\* const x = v followed by the statements Body(x): v is evaluated once
Let(v, Body(_)) == Body(v)

Ok(v) == [ok |-> TRUE, v |-> v, err |-> NoErr]
Fail(e) == [ok |-> FALSE, err |-> e]
\* the same, for the operations that read pages
OkR(v, reads) == [ok |-> TRUE, v |-> v, err |-> NoErr, reads |-> reads]
FailR(e, reads) == [ok |-> FALSE, err |-> e, reads |-> reads]

----------------------------------------------------------------------------
(* Buffers *)

EmptyBytes == [i \in {} |-> 0]
Buf(len, b) == [len |-> len, b |-> b]

\* buf[o] for an offset inside the buffer
U8(buf, o) == IF o \in DOMAIN buf.b THEN buf.b[o] ELSE 0
\* Node's read*(offset) and DataView's get*(offset) throw unless this holds
InRange(buf, o, n) == o >= 0 /\ o + n <= buf.len
U16(buf, o) == U8(buf, o) + 256 * U8(buf, o + 1)
U24(buf, o) == U16(buf, o) + 65536 * U8(buf, o + 2)
U32(buf, o) == U16(buf, o) + 65536 * U16(buf, o + 2)

Min(a, b) == IF a < b THEN a ELSE b
Max(a, b) == IF a > b THEN a ELSE b
Clamp(x, len) == Max(0, Min(x, len))

\* Buffer.subarray(s, e): both ends clamped to the buffer, empty when e < s
subarray(buf, s, e) ==
    LET s1 == Clamp(s, buf.len)
        e1 == Max(s1, Clamp(e, buf.len))
        keep == {o \in DOMAIN buf.b : o >= s1 /\ o < e1}
    IN  Buf(e1 - s1, [i \in {o - s1 : o \in keep} |-> buf.b[i + s1]])

\* the bytes of a (small) buffer as a sequence
Bytes(buf) == [i \in 1..buf.len |-> U8(buf, i - 1)]

----------------------------------------------------------------------------
(* BufferReader *)

\* a reader that reads the file whatever the state of its descriptor
readBufferAnyDescriptor(f, fdState, size, position) ==
    IF position < 0 THEN Fail(RangeError)
    ELSE IF position > f.len \div size THEN Ok(Buf(size, EmptyBytes))
    ELSE LET base == size * position
             got == {o \in DOMAIN f.b : o >= base /\ o < base + size}
         IN  Ok(Buf(size, [i \in {o - base : o \in got} |-> f.b[i + base]]))

\* readBuffer(size, position): Buffer.alloc(size) is zero-filled, readSync
\* copies the bytes the file has in [size*position, size*position + size)
\* and its return value (the number of bytes read) is dropped.
readBuffer(f, fdState, size, position) ==
    IF fdState # "open" THEN Fail(EBADF)
    ELSE IF position < 0 THEN Fail(RangeError)
    ELSE IF position > f.len \div size THEN Ok(Buf(size, EmptyBytes))
    ELSE LET base == size * position
             got == {o \in DOMAIN f.b : o >= base /\ o < base + size}
         IN  Ok(Buf(size, [i \in {o - base : o \in got} |-> f.b[i + base]]))

\* whether readSync returned fewer than size bytes for this read
ShortRead(f, size, position) ==
    position >= 0 /\ (position > f.len \div size \/ size * position + size > f.len)

----------------------------------------------------------------------------
(* JetDb.databaseConfig *)

JETDB3 == 0
JETDB4 == 1

readInt8(buf, o) == IF U8(buf, o) >= 128 THEN U8(buf, o) - 256 ELSE U8(buf, o)

databaseConfig(buf) ==
    IF ~InRange(buf, 20, 1) THEN Fail(RangeError)
    ELSE CASE readInt8(buf, 20) = JETDB3 -> Ok([pageSize |-> 2048, version |-> JETDB3])
           [] readInt8(buf, 20) = JETDB4 -> Ok([pageSize |-> 4096, version |-> JETDB4])
           [] OTHER -> Fail(Err("Error", "Unknown database version", readInt8(buf, 20)))

----------------------------------------------------------------------------
(* Text decoders used for names *)

\* TextDecoder('utf-16') of binary-parser's string(): a leading byte order
\* mark is dropped, a trailing odd byte decodes to U+FFFD
utf16Units(bs) ==
    [i \in 1..((Len(bs) + 1) \div 2) |->
        IF 2 * i <= Len(bs) THEN bs[2 * i - 1] + 256 * bs[2 * i] ELSE 65533]

decodeUtf16(bs) ==
    IF Len(bs) >= 2 /\ bs[1] = 255 /\ bs[2] = 254
    THEN utf16Units(SubSeq(bs, 3, Len(bs)))
    ELSE utf16Units(bs)

\* one code unit per byte (the names the model writes are ASCII)
decodeLatin1(bs) == bs

----------------------------------------------------------------------------
(* JetDb.parseTdef *)

\* pagecode 0x02, 1 skipped, 'VC' (JET3) or freeSpaceInPage (JET4),
\* nextPage, tdefLen
frontParser(cfg, buf) ==
    IF ~InRange(buf, 0, 1) THEN Fail(RangeError)
    ELSE IF U8(buf, 0) # 2 THEN Fail(AssertionError("pagecode"))
    ELSE IF cfg.version = JETDB3 /\ <<U8(buf, 2), U8(buf, 3)>> # <<86, 67>>
         THEN Fail(AssertionError("mark"))
    ELSE IF ~InRange(buf, 4, 8) THEN Fail(RangeError)
    ELSE Ok([nextPage |-> U32(buf, 4), tdefLen |-> U32(buf, 8)])

\* a concatenation that keeps the 8-byte header of the next page
tdefConcatWithHeader(cfg, buf, nextBuffer) ==
    Buf(2 * cfg.pageSize,
        buf.b @@ [i \in {o + cfg.pageSize : o \in DOMAIN nextBuffer.b} |->
                     nextBuffer.b[i - cfg.pageSize]])

\* a concatenation that leaves the next page out
tdefWithoutNextPage(cfg, buf, nextBuffer) == Buf(2 * cfg.pageSize, buf.b)

\* the logical buffer: the page alone, or the page followed by the bytes of
\* the next page from offset 8 on, in a buffer of twice the page size
tdefConcat(cfg, buf, nextBuffer) ==
    LET P == cfg.pageSize
        tail == {o \in DOMAIN nextBuffer.b : o >= 8}
    IN  Buf(2 * P, buf.b @@ [i \in {o - 8 + P : o \in tail} |-> nextBuffer.b[i + 8 - P]])

\* offset of tableType: 12 bytes of front, numRows, autoNumber, and on JET4
\* a 4-byte skip before them and 16 more bytes after them
tableTypeAt(cfg) == IF cfg.version = JETDB4 THEN 40 ELSE 20
numRowsAt(cfg) == IF cfg.version = JETDB4 THEN 16 ELSE 12
indexSize(cfg) == IF cfg.version = JETDB3 THEN 8 ELSE 12
columnSize(cfg) == IF cfg.version = JETDB4 THEN 25 ELSE 18
realIndexSize(cfg) == IF cfg.version = JETDB3 THEN 39 ELSE 52
indexInfoSize(cfg) == IF cfg.version = JETDB3 THEN 20 ELSE 28
nameLenSize(cfg) == IF cfg.version = JETDB3 THEN 1 ELSE 2

\* one column record at offset o
columnParser(cfg, buf, o) ==
    IF cfg.version = JETDB4
    THEN [type |-> U8(buf, o), number |-> U16(buf, o + 5), offsetV |-> U16(buf, o + 7),
          bitmask |-> U8(buf, o + 15), offsetF |-> U16(buf, o + 21),
          length |-> U16(buf, o + 23)]
    ELSE [type |-> U8(buf, o), number |-> U16(buf, o + 1), offsetV |-> U16(buf, o + 3),
          bitmask |-> U8(buf, o + 13), offsetF |-> U16(buf, o + 14),
          length |-> U16(buf, o + 16)]

nameLenAt(cfg, buf, o) == IF cfg.version = JETDB3 THEN U8(buf, o) ELSE U16(buf, o)

\* a length-prefixed name at offset o; string() takes subarray(o, o + length)
nameAt(cfg, buf, o) ==
    LET n == nameLenAt(cfg, buf, o)
        bs == Bytes(subarray(buf, o + nameLenSize(cfg), o + nameLenSize(cfg) + n))
    IN  [length |-> n,
         name |-> IF cfg.version = JETDB3 THEN decodeLatin1(bs) ELSE decodeUtf16(bs)]

\* the offset after k length-prefixed names starting at o
RECURSIVE skipNames(_, _, _, _)
skipNames(cfg, buf, o, k) ==
    IF k = 0 \/ o >= buf.len THEN o
    ELSE skipNames(cfg, buf, o + nameLenSize(cfg) + nameLenAt(cfg, buf, o), k - 1)

\* freePages: 10-byte items are read from offset o until an item's colNum
\* is 0xffff or the two bytes after an item are 0xff 0xff; the result is the
\* offset after the last item read, or -1 when the buffer ends first
freePagesEnd(buf, o) ==
    LET marks == {m \in DOMAIN buf.b : /\ m >= o
                                       /\ (m - o) % 10 = 0
                                       /\ buf.b[m] = 255
                                       /\ U8(buf, m + 1) = 255
                                       /\ m + 1 < buf.len}
        first == CHOOSE m \in marks : \A x \in marks : m <= x
        end == IF first = o THEN o + 10 ELSE first
    IN  IF marks = {} THEN -1 ELSE IF end <= buf.len THEN end ELSE -1

tdefParser(cfg, buf) ==
    LET front == frontParser(cfg, buf)
        tt == tableTypeAt(cfg)
        numCols == U16(buf, tt + 5)
        numIdx == U32(buf, tt + 7)
        numRealIdx == U32(buf, tt + 11)
        colsAt == tt + 23 + numRealIdx * indexSize(cfg)
        namesAt == colsAt + numCols * columnSize(cfg)
        realIdxAt == skipNames(cfg, buf, namesAt, numCols)
        idxNamesAt == realIdxAt + numRealIdx * realIndexSize(cfg)
                                + numIdx * indexInfoSize(cfg)
        freeAt == skipNames(cfg, buf, idxNamesAt, numIdx)
        nameOff[i \in 1..numCols] == skipNames(cfg, buf, namesAt, i - 1)
    IN  IF ~front.ok THEN front
        ELSE IF namesAt > buf.len \/ freeAt > buf.len \/ freePagesEnd(buf, freeAt) < 0
             THEN Fail(RangeError)
        ELSE Ok([pagecode |-> U8(buf, 0),
                 nextPage |-> front.v.nextPage,
                 numRows |-> U32(buf, numRowsAt(cfg)),
                 numVarCols |-> U16(buf, tt + 3),
                 numCols |-> numCols,
                 usedPagesPage |-> U24(buf, tt + 16),
                 cols |-> [i \in 1..numCols |->
                              columnParser(cfg, buf, colsAt + (i - 1) * columnSize(cfg))],
                 colNames |-> [i \in 1..numCols |-> nameAt(cfg, buf, nameOff[i])]])

parseTdef(f, fdState, cfg, buf) ==
    LET front == frontParser(cfg, buf)
        parsed(t, reads) == IF t.ok THEN OkR(t.v, reads) ELSE FailR(t.err, reads)
    IN  IF ~front.ok THEN FailR(front.err, <<>>)
        ELSE IF front.v.nextPage > 0
        THEN Let(readBuffer(f, fdState, cfg.pageSize, front.v.nextPage),
                 LAMBDA nextBuffer :
                   IF ~nextBuffer.ok THEN FailR(nextBuffer.err, <<front.v.nextPage>>)
                   ELSE parsed(tdefParser(cfg, tdefConcat(cfg, buf, nextBuffer.v)),
                               <<front.v.nextPage>>))
        ELSE parsed(tdefParser(cfg, Buf(cfg.pageSize, buf.b)), <<>>)

----------------------------------------------------------------------------
(* JetDb.readPageBitmap, JetDb.parseUsedPagesMap *)

\* bit k of byte v, k = 0 the least significant (the first bit1 field of a
\* little-endian binary-parser bit group)
Bit(v, k) == (v \div (2 ^ k)) % 2

RECURSIVE SortedSeq(_)
SortedSeq(S) ==
    IF S = {} THEN <<>>
    ELSE LET m == CHOOSE x \in S : \A y \in S : x <= y
         IN  <<m>> \o SortedSeq(S \ {m})

\* a bitmap whose bits are taken from bit 7 of each byte down
readPageBitmapMsbFirst(buf, pageStart) ==
    SortedSeq({pageStart + 8 * x[1] + (7 - x[2]) :
                  x \in {y \in (DOMAIN buf.b) \X (0..7) : (U8(buf, y[1]) \div (2 ^ y[2])) % 2 = 1}})

\* the counter c runs over the bits of the buffer from pageStart; a page is
\* pushed for every bit that is 1 (only non-zero bytes have such bits)
readPageBitmap(buf, pageStart) ==
    LET ones == {x \in (DOMAIN buf.b) \X (0..7) : Bit(U8(buf, x[1]), x[2]) = 1}
    IN  SortedSeq({pageStart + 8 * x[1] + x[2] : x \in ones})

usedPagesSkip(cfg) == IF cfg.version = JETDB3 THEN 10 ELSE 14

\* a paged map that stops after its first page and counts its bits from 0
pagedMapFirstEntry(f, fdState, cfg, bitmap, idxs, usedPages, reads) ==
    IF idxs = <<>> THEN OkR(usedPages, reads)
    ELSE Let(readBuffer(f, fdState, cfg.pageSize, U32(bitmap, 4 * Head(idxs))),
             LAMBDA page :
               IF ~page.ok THEN FailR(page.err, <<U32(bitmap, 4 * Head(idxs))>>)
               ELSE OkR([i \in 1..Len(SortedSeq(DOMAIN subarray(page.v, 4, page.v.len).b))
                           |-> 8 * SortedSeq(DOMAIN subarray(page.v, 4, page.v.len).b)[i]],
                        <<U32(bitmap, 4 * Head(idxs))>>))

\* mapType 1, the entries idxs (ascending) of the u32 array that are not 0:
\* each page is read and its bitmap after the 4-byte header is added
RECURSIVE pagedMap(_, _, _, _, _, _, _)
pagedMap(f, fdState, cfg, bitmap, idxs, usedPages, reads) ==
    IF idxs = <<>> THEN OkR(usedPages, reads)
    ELSE LET idx == Head(idxs)
             pageNumber == U32(bitmap, 4 * idx)
             pagesInPage == (cfg.pageSize - 4) * 8
             pageStart == idx * pagesInPage
         IN  Let(readBuffer(f, fdState, cfg.pageSize, pageNumber),
                 LAMBDA page :
                   IF ~page.ok THEN FailR(page.err, Append(reads, pageNumber))
                   ELSE pagedMap(f, fdState, cfg, bitmap, Tail(idxs),
                                 usedPages \o readPageBitmap(
                                     subarray(page.v, 4, page.v.len), pageStart),
                                 Append(reads, pageNumber)))

parseUsedPagesMap(f, fdState, cfg, buf) ==
    LET skip == usedPagesSkip(cfg)
        firstPageApplies == U16(buf, skip)
        mapType == U8(buf, firstPageApplies)
        bitmap == subarray(buf, firstPageApplies + 1, buf.len)
    IN  IF ~InRange(buf, firstPageApplies, 1) THEN FailR(RangeError, <<>>)
        ELSE IF mapType = 1
        THEN IF bitmap.len % 4 # 0 THEN FailR(RangeError, <<>>)
             ELSE pagedMap(f, fdState, cfg, bitmap,
                           SortedSeq({o \div 4 : o \in DOMAIN bitmap.b}), <<>>, <<>>)
        ELSE IF ~InRange(bitmap, 0, 4) THEN FailR(RangeError, <<>>)
             ELSE OkR(readPageBitmap(subarray(bitmap, 4, bitmap.len), U32(bitmap, 0)),
                      <<>>)

----------------------------------------------------------------------------
(* Column values: typeof and content.  A number read from an unsigned       *)
(* 32-bit field is kept as its two 16-bit halves <<hi, lo>>.                *)

NumV(hi, lo) == [t |-> "number", v |-> <<hi, lo>>]
StrV(s) == [t |-> "string", v |-> s]
NullV == [t |-> "null", v |-> <<>>]
BigV(bs) == [t |-> "bigint", v |-> bs]
DoubleV(bs) == [t |-> "double", v |-> bs]

\* a sentinel that is the empty string
emptySentinel == StrV(<<>>)

\* "[unknown type]"
UnknownType == StrV(<<91, 117, 110, 107, 110, 111, 119, 110, 32, 116, 121, 112, 101, 93>>)

----------------------------------------------------------------------------
(* JetDb.parseText, JetDb.decompressUnicode *)

\* the loop of decompressUnicode from (pos, slen, tlen, compress), out being
\* the bytes written so far; src[pos] past the end of src is undefined
RECURSIVE decompressLoop(_, _, _, _, _, _, _)
decompressLoop(src, dlen, pos, slen, tlen, compress, out) ==
    IF ~(slen > 0 /\ tlen < dlen) THEN out
    ELSE IF pos < Len(src) /\ src[pos + 1] = 0
    THEN decompressLoop(src, dlen, pos + 1, slen - 1, tlen, 1 - compress, out)
    ELSE IF compress = 1
    THEN decompressLoop(src, dlen, pos + 1, slen - 1, tlen + 2, compress,
                        out \o <<IF pos < Len(src) THEN src[pos + 1] ELSE 0, 0>>)
    ELSE IF slen >= 2
    THEN decompressLoop(src, dlen, pos + 2, slen - 2, tlen + 2, compress,
                        out \o <<IF pos < Len(src) THEN src[pos + 1] ELSE 0,
                                 IF pos + 1 < Len(src) THEN src[pos + 2] ELSE 0>>)
    ELSE out

\* a decoder that expands every byte and knows no toggle
decompressNoToggle(src, slen, dlen) ==
    [i \in 1..(2 * Len(src)) |-> IF i % 2 = 1 THEN src[(i + 1) \div 2] ELSE 0]

\* a decoder that ends its output with one more 0x00
decompressWithTerminator(src, slen, dlen) ==
    decompressLoop(src, dlen, 0, slen, 0, 1, <<>>) \o <<0>>

\* a decoder that copies its input
decompressCopy(src, slen, dlen) == src

\* dst is Buffer.alloc(slen * 2): writes past it are dropped, and the result
\* is dst.subarray(0, tlen)
decompressUnicode(src, slen, dlen) ==
    LET out == decompressLoop(src, dlen, 0, slen, 0, 1, <<>>)
    IN  SubSeq(out, 1, Min(Len(out), Max(0, slen * 2)))

\* Buffer.toString('utf16le'): byte pairs, a trailing odd byte is dropped
toStringUtf16le(bs) ==
    [i \in 1..(Len(bs) \div 2) |-> bs[2 * i - 1] + 256 * bs[2 * i]]

\* Buffer.toString('latin1'): one code unit per byte
toStringLatin1(bs) == bs

parseText(cfg, buffer) ==
    LET bs == Bytes(buffer)
    IN  IF cfg.version = JETDB3 THEN toStringLatin1(bs)
        ELSE IF Len(bs) >= 2 /\ bs[1] = 255 /\ bs[2] = 254
        THEN toStringUtf16le(decompressUnicode(SubSeq(bs, 3, Len(bs)),
                                               Len(bs) - 2, (Len(bs) - 2) * 2))
        ELSE toStringUtf16le(bs)

----------------------------------------------------------------------------
(* JetDb.parseOffsets *)

dataNumRowsAt(cfg) == IF cfg.version = JETDB4 THEN 12 ELSE 8

\* a slot entry whose delFlag is taken from bit 15 instead of bit 14
rowOffsetDelBit15(cfg, raw, idx) ==
    [lookupFlag |-> ((raw[idx] \div 32768) % 2) * 32768,
     delFlag |-> (raw[idx] \div 32768) % 2 # 0,
     offset |-> raw[idx] % 8192,
     next |-> IF idx > 1 THEN raw[idx - 1] % 8192 ELSE cfg.pageSize]

rowOffset(cfg, raw, idx) ==
    [lookupFlag |-> ((raw[idx] \div 32768) % 2) * 32768,
     delFlag |-> (raw[idx] \div 16384) % 2 # 0,
     offset |-> raw[idx] % 8192,
     next |-> IF idx > 1 THEN raw[idx - 1] % 8192 ELSE cfg.pageSize]

parseOffsets(cfg, buffer) ==
    LET at == dataNumRowsAt(cfg)
        numRows == U16(buffer, at)
        raw == [i \in 1..numRows |-> U16(buffer, at + 2 * i)]
    IN  IF ~InRange(buffer, 0, 1) THEN Fail(RangeError)
        ELSE IF U8(buffer, 0) # 1 THEN Fail(AssertionError("pagecode"))
        ELSE IF ~InRange(buffer, at, 2 + 2 * numRows) THEN Fail(RangeError)
        ELSE Ok([i \in 1..numRows |-> rowOffset(cfg, raw, i)])

----------------------------------------------------------------------------
(* JetDb.parseColumn *)

\* tmp >> 8 for the unsigned 32-bit tmp = <<hi, lo>>: the shift works on the
\* signed 32-bit value of tmp
shiftRight8(hi, lo) == (IF hi >= 32768 THEN hi - 65536 ELSE hi) * 256 + lo \div 256

\* a memo decoder that knows no mask
parseMemoNoDispatch(f, fdState, cfg, buffer, start) == OkR(UnknownType, <<>>)

\* a memo decoder that gives the sentinel when the long value cannot be
\* found, and skips a deleted slot in the same way
parseMemoLenient(f, fdState, cfg, buffer, start) ==
    LET memoLen == U16(buffer, start) + U8(buffer, start + 2)
        memoMask == U8(buffer, start + 3)
        memoPage == shiftRight8(U16(buffer, start + 6), U16(buffer, start + 4))
        memoRow == U16(buffer, start + 4) % 256
    IN  IF memoMask = 128
        THEN OkR(StrV(parseText(cfg, subarray(buffer, start + 12, start + 12 + memoLen))),
                 <<>>)
        ELSE IF memoMask = 64
        THEN Let(readBuffer(f, fdState, cfg.pageSize, memoPage),
                 LAMBDA memoBuffer :
                   IF ~memoBuffer.ok THEN OkR(UnknownType, <<memoPage>>)
                   ELSE Let(parseOffsets(cfg, memoBuffer.v),
                            LAMBDA offsets :
                              IF ~offsets.ok \/ memoRow + 1 > Len(offsets.v)
                              THEN OkR(UnknownType, <<memoPage>>)
                              ELSE IF offsets.v[memoRow + 1].delFlag
                              THEN OkR(UnknownType, <<memoPage>>)
                              ELSE OkR(StrV(parseText(cfg,
                                          subarray(memoBuffer.v,
                                                   offsets.v[memoRow + 1].offset,
                                                   offsets.v[memoRow + 1].next))),
                                       <<memoPage>>)))
        ELSE OkR(UnknownType, <<>>)

\* case 12: memo, long text
parseMemo(f, fdState, cfg, buffer, start) ==
    LET memoLen == U16(buffer, start) + U8(buffer, start + 2)
        memoMask == U8(buffer, start + 3)
        memoPage == shiftRight8(U16(buffer, start + 6), U16(buffer, start + 4))
        memoRow == U16(buffer, start + 4) % 256
    IN  IF ~InRange(buffer, start, 8) THEN FailR(RangeError, <<>>)
        ELSE IF memoMask = 128
        THEN OkR(StrV(parseText(cfg, subarray(buffer, start + 12, start + 12 + memoLen))),
                 <<>>)
        ELSE IF memoMask = 64
        THEN Let(readBuffer(f, fdState, cfg.pageSize, memoPage),
                 LAMBDA memoBuffer :
                   IF ~memoBuffer.ok THEN FailR(memoBuffer.err, <<memoPage>>)
                   ELSE Let(parseOffsets(cfg, memoBuffer.v),
                            LAMBDA offsets :
                              IF ~offsets.ok THEN FailR(offsets.err, <<memoPage>>)
                              ELSE IF memoRow + 1 > Len(offsets.v)
                              THEN FailR(TypeErrorUndefined("offset"), <<memoPage>>)
                              ELSE OkR(StrV(parseText(cfg,
                                          subarray(memoBuffer.v,
                                                   offsets.v[memoRow + 1].offset,
                                                   offsets.v[memoRow + 1].next))),
                                       <<memoPage>>)))
        ELSE OkR(UnknownType, <<>>)

\* the fixed-width reads of parseColumn: type -> bytes read at start
fixedWidth(type) ==
    CASE type = 1 -> 1 [] type = 2 -> 1 [] type = 3 -> 2 [] type = 4 -> 4
      [] type = 7 -> 8 [] type = 8 -> 8 [] OTHER -> 0

parseColumn(f, fdState, cfg, buffer, column, start, length) ==
    IF column.type \in {1, 2, 3, 4, 7, 8}
    THEN IF ~InRange(buffer, start, fixedWidth(column.type)) THEN FailR(RangeError, <<>>)
         ELSE OkR(CASE column.type = 1 -> NumV(0, IF U8(buffer, start) # 0 THEN 1 ELSE 0)
                    [] column.type = 2 -> NumV(0, U8(buffer, start))
                    [] column.type = 3 -> NumV(0, U16(buffer, start))
                    [] column.type = 4 -> NumV(U16(buffer, start + 2), U16(buffer, start))
                    [] column.type = 7 -> DoubleV(Bytes(subarray(buffer, start, start + 8)))
                    [] column.type = 8 -> BigV(Bytes(subarray(buffer, start, start + 8))),
                  <<>>)
    ELSE IF column.type = 10
    THEN OkR(StrV(parseText(cfg, subarray(buffer, start, start + length))), <<>>)
    ELSE IF column.type = 12
    THEN parseMemo(f, fdState, cfg, buffer, start)
    ELSE OkR(UnknownType, <<>>)

----------------------------------------------------------------------------
(* JetDb.readRowsForPage *)

varLenSize(cfg) == IF cfg.version = JETDB3 THEN 1 ELSE 2
\* readUInt8 (JET3) or readUInt16LE (JET4)
readVar(cfg, buffer, o) == IF cfg.version = JETDB3 THEN U8(buffer, o) ELSE U16(buffer, o)

Reverse(s) == [i \in 1..Len(s) |-> s[Len(s) + 1 - i]]

\* the layout of one row slot: columnsInRow, varLen, the var offsets in
\* natural order followed by the end-of-data entry, and the null mask place
rowLayout(cfg, buffer, offset) ==
    LET vls == varLenSize(cfg)
        columnsInRow == readVar(cfg, buffer, offset.offset)
        nullMaskSize == (columnsInRow + 7) \div 8
        varLenAt == offset.next - vls - nullMaskSize
        varLen == readVar(cfg, buffer, varLenAt)
        tableAt == varLenAt - varLen * vls
        table == [i \in 1..varLen |-> readVar(cfg, buffer, tableAt + (i - 1) * vls)]
    IN  IF \/ ~InRange(buffer, offset.offset, vls)
           \/ ~InRange(buffer, varLenAt, vls)
           \/ (varLen > 0 /\ ~InRange(buffer, tableAt, varLen * vls))
           \/ ~InRange(buffer, tableAt - vls, vls)
           \/ (nullMaskSize > 0 /\ ~InRange(buffer, offset.next - nullMaskSize, nullMaskSize))
        THEN Fail(RangeError)
        ELSE Ok([columnsInRow |-> columnsInRow,
                 nullMaskSize |-> nullMaskSize,
                 varLen |-> varLen,
                 varOffsets |-> Append(Reverse(table), readVar(cfg, buffer, tableAt - vls)),
                 nullMaskAt |-> offset.next - nullMaskSize])

\* a mask whose bits are taken from bit 7 of each byte down
nullMaskMsbFirst(buffer, lay, n) ==
    /\ n < 8 * lay.nullMaskSize
    /\ Bit(U8(buffer, lay.nullMaskAt + n \div 8), 7 - (n % 8)) = 0

\* nullMask[n] == 0; nullMask[n] is undefined past the mask
nullMaskIsZero(buffer, lay, n) ==
    /\ n < 8 * lay.nullMaskSize
    /\ Bit(U8(buffer, lay.nullMaskAt + n \div 8), n % 8) = 0

\* start and length of a column's bytes; nan when varOffsets[offsetV] is
\* undefined
columnSlice(cfg, lay, offset, column) ==
    IF column.bitmask % 2 = 1
    THEN [start |-> offset.offset + column.offsetF + varLenSize(cfg),
          length |-> column.length, nan |-> FALSE]
    ELSE IF column.offsetV + 1 <= lay.varLen
    THEN [start |-> offset.offset + lay.varOffsets[column.offsetV + 1],
          length |-> lay.varOffsets[column.offsetV + 2] - lay.varOffsets[column.offsetV + 1],
          nan |-> FALSE]
    ELSE IF column.offsetV <= lay.varLen
    THEN [start |-> offset.offset + lay.varOffsets[column.offsetV + 1],
          length |-> 0, nan |-> FALSE]
    ELSE [start |-> 0, length |-> 0, nan |-> TRUE]

columnData(schema, i, sl, value, isNull) ==
    [rawValue |-> sl,
     position |-> schema.cols[i].number,
     name |-> schema.colNames[i].name,
     type |-> schema.cols[i].type,
     value |-> value,
     isNull |-> isNull]

\* schema.cols.forEach from column i on
RECURSIVE readColumns(_, _, _, _, _, _, _, _, _, _)
readColumns(f, fdState, cfg, buffer, schema, lay, offset, i, acc, reads) ==
    IF i > Len(schema.cols) THEN OkR(acc, reads)
    ELSE LET column == schema.cols[i]
             sl == columnSlice(cfg, lay, offset, column)
             isNull == nullMaskIsZero(buffer, lay, column.number)
         IN  IF sl.length > 0
             THEN Let(parseColumn(f, fdState, cfg, buffer, column, sl.start, sl.length),
                      LAMBDA parsed :
                        IF ~parsed.ok THEN FailR(parsed.err, reads \o parsed.reads)
                        ELSE readColumns(f, fdState, cfg, buffer, schema, lay, offset, i + 1,
                                         Append(acc, columnData(schema, i, sl, parsed.v,
                                                                isNull)),
                                         reads \o parsed.reads))
             ELSE readColumns(f, fdState, cfg, buffer, schema, lay, offset, i + 1,
                              Append(acc, columnData(schema, i, sl,
                                                     IF isNull THEN NullV ELSE StrV(<<>>),
                                                     isNull)),
                              reads)

\* a filter that keeps the deleted slots too
keepDeleted(offsets) == offsets

\* the slots that are not deleted, in slot order
RECURSIVE FilterNotDeleted(_)
FilterNotDeleted(offsets) ==
    IF offsets = <<>> THEN <<>>
    ELSE IF Head(offsets).delFlag THEN FilterNotDeleted(Tail(offsets))
    ELSE <<Head(offsets)>> \o FilterNotDeleted(Tail(offsets))

\* forEach over the kept slots from the idx-th (0-based) on
RECURSIVE readSlots(_, _, _, _, _, _, _, _, _)
readSlots(f, fdState, cfg, buffer, schema, kept, idx, rowData, reads) ==
    IF idx >= Len(kept) THEN OkR(rowData, reads)
    ELSE Let(rowLayout(cfg, buffer, kept[idx + 1]),
             LAMBDA lay :
               IF ~lay.ok THEN FailR(lay.err, reads)
               ELSE Let(readColumns(f, fdState, cfg, buffer, schema, lay.v, kept[idx + 1],
                                    1, <<>>, <<>>),
                        LAMBDA cols :
                          IF ~cols.ok THEN FailR(cols.err, reads \o cols.reads)
                          ELSE readSlots(f, fdState, cfg, buffer, schema, kept, idx + 1,
                                         Append(rowData,
                                                [columns |-> cols.v, number |-> idx]),
                                         reads \o cols.reads)))

readRowsForPage(f, fdState, cfg, buffer, schema) ==
    Let(parseOffsets(cfg, buffer),
        LAMBDA offsets :
          IF ~offsets.ok THEN FailR(offsets.err, <<>>)
          ELSE readSlots(f, fdState, cfg, buffer, schema, FilterNotDeleted(offsets.v), 0,
                         <<>>, <<>>))

----------------------------------------------------------------------------
(* JetDb.readRows *)

\* a readRows that leaves out a page it cannot decode
RECURSIVE readRowsSkipBadPage(_, _, _, _, _, _, _)
readRowsSkipBadPage(f, fdState, cfg, usedPagesMap, schema, rowData, reads) ==
    IF usedPagesMap = <<>> THEN OkR(rowData, reads)
    ELSE LET pageNumber == Head(usedPagesMap)
         IN  Let(readBuffer(f, fdState, cfg.pageSize, pageNumber),
                 LAMBDA buffer :
                   IF ~buffer.ok THEN FailR(buffer.err, Append(reads, pageNumber))
                   ELSE Let(readRowsForPage(f, fdState, cfg, buffer.v, schema),
                            LAMBDA decoded :
                              readRowsSkipBadPage(f, fdState, cfg, Tail(usedPagesMap),
                                  schema,
                                  rowData \o (IF decoded.ok THEN decoded.v ELSE <<>>),
                                  Append(reads, pageNumber) \o decoded.reads)))

RECURSIVE readRows(_, _, _, _, _, _, _)
readRows(f, fdState, cfg, usedPagesMap, schema, rowData, reads) ==
    IF usedPagesMap = <<>> THEN OkR(rowData, reads)
    ELSE LET pageNumber == Head(usedPagesMap)
         IN  Let(readBuffer(f, fdState, cfg.pageSize, pageNumber),
                 LAMBDA buffer :
                   IF ~buffer.ok THEN FailR(buffer.err, Append(reads, pageNumber))
                   ELSE Let(readRowsForPage(f, fdState, cfg, buffer.v, schema),
                            LAMBDA rows :
                              IF ~rows.ok
                              THEN FailR(rows.err, Append(reads, pageNumber) \o rows.reads)
                              ELSE readRows(f, fdState, cfg, Tail(usedPagesMap), schema,
                                            rowData \o rows.v,
                                            Append(reads, pageNumber) \o rows.reads)))

----------------------------------------------------------------------------
(* JetDb.isUserTable, init, tables, columns, rows, close *)

UndefinedV == [t |-> "undefined", v |-> <<>>]

\* the column names the source looks up
NameType == <<84, 121, 112, 101>>
NameFlags == <<70, 108, 97, 103, 115>>
NameName == <<78, 97, 109, 101>>
NameId == <<73, 100>>

\* row.columns.find(p => p.name == name)?.value
findValue(row, name) ==
    LET hits == {i \in 1..Len(row.columns) : row.columns[i].name = name}
    IN  IF hits = {} THEN UndefinedV
        ELSE row.columns[CHOOSE i \in hits : \A j \in hits : i <= j].value

RECURSIVE BitAnd(_, _)
BitAnd(a, b) ==
    IF a = 0 \/ b = 0 THEN 0
    ELSE (a % 2) * (b % 2) + 2 * BitAnd(a \div 2, b \div 2)

\* x & mask == want on 32-bit values given as <<hi, lo>>
maskEquals(x, mask, want) ==
    <<BitAnd(x[1], mask[1]), BitAnd(x[2], mask[2])>> = want

\* a test that compares all 32 bits of Type with 1
isUserTableExactType(row) ==
    /\ findValue(row, NameType) = NumV(0, 1)
    /\ findValue(row, NameFlags).t = "number"
    /\ maskEquals(findValue(row, NameFlags).v, <<32768, 2>>, <<0, 0>>)

\* (type & 0x00ffffff) == 1 && (flags & 0x80000002) == 0, for values whose
\* typeof is 'number' (the catalogs written here have no type-7 column
\* named Type or Flags, so such a number is an integer read)
isUserTable(row) ==
    LET type == findValue(row, NameType)
        flags == findValue(row, NameFlags)
    IN  /\ type.t = "number"
        /\ flags.t = "number"
        /\ maskEquals(type.v, <<255, 65535>>, <<0, 1>>)
        /\ maskEquals(flags.v, <<32768, 2>>, <<0, 0>>)

RECURSIVE FilterUserTables(_)
FilterUserTables(rows) ==
    IF rows = <<>> THEN <<>>
    ELSE IF isUserTable(Head(rows)) THEN <<Head(rows)>> \o FilterUserTables(Tail(rows))
    ELSE FilterUserTables(Tail(rows))

numberValue(v) == v.v[1] * 65536 + v.v[2]

\* the loop of init over this.userTables from the i-th on: the tdef of the
\* page named by Id is pushed when Id is a number
RECURSIVE initSchemas(_, _, _, _, _, _, _)
initSchemas(f, fdState, cfg, userTables, i, schema, reads) ==
    IF i > Len(userTables) THEN [schema |-> schema, err |-> NoErr, reads |-> reads]
    ELSE LET tableId == findValue(userTables[i], NameId)
         IN  IF tableId.t # "number"
             THEN initSchemas(f, fdState, cfg, userTables, i + 1, schema, reads)
             ELSE Let(readBuffer(f, fdState, cfg.pageSize, numberValue(tableId)),
                      LAMBDA buf :
                        IF ~buf.ok
                        THEN [schema |-> schema, err |-> buf.err,
                              reads |-> Append(reads, numberValue(tableId))]
                        ELSE Let(parseTdef(f, fdState, cfg, buf.v),
                                 LAMBDA tdef :
                                   IF ~tdef.ok
                                   THEN [schema |-> schema, err |-> tdef.err,
                                         reads |-> Append(reads, numberValue(tableId))
                                                   \o tdef.reads]
                                   ELSE initSchemas(f, fdState, cfg, userTables, i + 1,
                                                    Append(schema, tdef.v),
                                                    Append(reads, numberValue(tableId))
                                                        \o tdef.reads)))

\* init(): what it leaves in userTables and schema, the error it ended with
\* (NoErr when it ran to its end) and the pages it read
init(f, fdState, cfg) ==
    LET P == cfg.pageSize
        stopped(e, rd) == [userTables |-> <<>>, schema |-> <<>>, err |-> e, reads |-> rd]
        \* this.userTables = rows.filter(...) and the loop over it
        filtered(userTables, reads) ==
            Let(initSchemas(f, fdState, cfg, userTables, 1, <<>>, reads),
                LAMBDA rest : [userTables |-> userTables, schema |-> rest.schema,
                               err |-> rest.err, reads |-> rest.reads])
        \* from parseUsedPagesMap on, schema being the tdef of page 2
        mapped(schema, r1) ==
            Let(readBuffer(f, fdState, P, schema.usedPagesPage),
                LAMBDA mapPage :
                  IF ~mapPage.ok THEN stopped(mapPage.err, Append(r1, schema.usedPagesPage))
                  ELSE Let(parseUsedPagesMap(f, fdState, cfg, mapPage.v),
                           LAMBDA usedPagesMap :
                             IF ~usedPagesMap.ok
                             THEN stopped(usedPagesMap.err,
                                          Append(r1, schema.usedPagesPage)
                                              \o usedPagesMap.reads)
                             ELSE Let(readRows(f, fdState, cfg, usedPagesMap.v, schema,
                                               <<>>, <<>>),
                                      LAMBDA rows :
                                        IF ~rows.ok
                                        THEN stopped(rows.err,
                                                     Append(r1, schema.usedPagesPage)
                                                         \o usedPagesMap.reads
                                                         \o rows.reads)
                                        ELSE filtered(FilterUserTables(rows.v),
                                                      Append(r1, schema.usedPagesPage)
                                                          \o usedPagesMap.reads
                                                          \o rows.reads))))
    IN  Let(readBuffer(f, fdState, P, 2),
            LAMBDA page2 :
              IF ~page2.ok THEN stopped(page2.err, <<2>>)
              ELSE Let(parseTdef(f, fdState, cfg, page2.v),
                       LAMBDA schema :
                         IF ~schema.ok THEN stopped(schema.err, <<2>> \o schema.reads)
                         ELSE mapped(schema.v, <<2>> \o schema.reads)))

\* this.userTables.findIndex(p => Name of p == table), 0-based, -1 when none
findIndex(userTables, table) ==
    LET hits == {i \in 1..Len(userTables) :
                    findValue(userTables[i], NameName) = StrV(table)}
    IN  IF hits = {} THEN -1 ELSE (CHOOSE i \in hits : \A j \in hits : i <= j) - 1

\* this.schema[tableIndex] is undefined unless this holds
hasSchema(d, tableIndex) == tableIndex >= 0 /\ tableIndex < Len(d.schema)

tables(d) ==
    IF \E i \in 1..Len(d.userTables) : findValue(d.userTables[i], NameName).t # "string"
    THEN Fail(Err("Error", "Error in table names", 0))
    ELSE Ok([i \in 1..Len(d.userTables) |-> findValue(d.userTables[i], NameName).v])

columns(d, table) ==
    LET tableIndex == findIndex(d.userTables, table)
        colNames == d.schema[tableIndex + 1].colNames
    IN  IF ~hasSchema(d, tableIndex) THEN Fail(TypeErrorUndefined("colNames"))
        ELSE Ok([i \in 1..Len(colNames) |-> colNames[i].name])

columnsWithType(d, table) ==
    LET tableIndex == findIndex(d.userTables, table)
        tdef == d.schema[tableIndex + 1]
    IN  IF ~hasSchema(d, tableIndex) THEN Fail(TypeErrorUndefined("cols"))
        ELSE Ok([i \in 1..Len(tdef.cols) |-> <<tdef.colNames[i].name, tdef.cols[i].type>>])

\* userTables.map: the first entry whose Name is no string, or that has no
\* schema entry at its index, ends the call
tablesWithRows(d) ==
    LET name(i) == findValue(d.userTables[i], NameName)
        bad == {i \in 1..Len(d.userTables) : name(i).t # "string" \/ i > Len(d.schema)}
    IN  IF bad = {} THEN Ok([i \in 1..Len(d.userTables) |-> <<name(i).v, d.schema[i].numRows>>])
        ELSE IF name(CHOOSE i \in bad : \A j \in bad : i <= j).t # "string"
        THEN Fail(Err("Error", "Error in table names", 0))
        ELSE Fail(TypeErrorUndefined("numRows"))

\* a query that forgets the schema
queryClearsSchema(d) == [d EXCEPT !.schema = <<>>]

\* the handle after tables, columns, columnsWithType, tablesWithRows, rows
\* or streamRows: none of them assigns to config, userTables or schema
queryFrame(d) == d

rows(f, fdState, d, table) ==
    LET tableIndex == findIndex(d.userTables, table)
        tdef == d.schema[tableIndex + 1]
    IN  IF ~hasSchema(d, tableIndex) THEN FailR(TypeErrorUndefined("usedPagesPage"), <<>>)
        ELSE Let(readBuffer(f, fdState, d.config.pageSize, tdef.usedPagesPage),
                 LAMBDA mapPage :
                   IF ~mapPage.ok THEN FailR(mapPage.err, <<tdef.usedPagesPage>>)
                   ELSE Let(parseUsedPagesMap(f, fdState, d.config, mapPage.v),
                            LAMBDA usedPagesMap :
                              IF ~usedPagesMap.ok
                              THEN FailR(usedPagesMap.err,
                                         <<tdef.usedPagesPage>> \o usedPagesMap.reads)
                              ELSE readRows(f, fdState, d.config, usedPagesMap.v, tdef,
                                            <<>>,
                                            <<tdef.usedPagesPage>> \o usedPagesMap.reads)))

\* fs.createReadStream(filename, {highWaterMark: pageSize}) reads the file
\* through a descriptor of its own, front to back: chunk p is the bytes
\* [p * size, p * size + size) the file has, the last one possibly shorter
chunkCount(f, size) == (f.len + size - 1) \div size
chunk(f, size, p) == subarray(f, size * p, size * p + size)

\* a pickPages that counts the chunks from 1
pickPagesFromOne(pages, p) == \E i \in 1..Len(pages) : pages[i] = p + 1

\* pickPages: pages.includes(p), p being the number of chunks seen before
pickPages(pages, p) == \E i \in 1..Len(pages) : pages[i] = p

\* transformPages over the chunks picked (ascending, as p counts up): one
\* batch is pushed for each; what readRowsForPage throws ends the stream
RECURSIVE transformPages(_, _, _, _, _, _, _)
transformPages(f, fdState, cfg, picked, schema, batches, reads) ==
    IF picked = <<>> THEN OkR(batches, reads)
    ELSE Let(readRowsForPage(f, fdState, cfg, chunk(f, cfg.pageSize, Head(picked)), schema),
             LAMBDA batch :
               IF ~batch.ok THEN FailR(batch.err, reads \o batch.reads)
               ELSE transformPages(f, fdState, cfg, Tail(picked), schema,
                                   Append(batches, batch.v), reads \o batch.reads))

\* streamRows(table) and the batches its stream delivers until it ends
streamRows(f, fdState, d, table) ==
    LET tableIndex == findIndex(d.userTables, table)
        tdef == d.schema[tableIndex + 1]
        P == d.config.pageSize
    IN  IF ~hasSchema(d, tableIndex) THEN FailR(TypeErrorUndefined("usedPagesPage"), <<>>)
        ELSE Let(readBuffer(f, fdState, P, tdef.usedPagesPage),
                 LAMBDA mapPage :
                   IF ~mapPage.ok THEN FailR(mapPage.err, <<tdef.usedPagesPage>>)
                   ELSE Let(parseUsedPagesMap(f, fdState, d.config, mapPage.v),
                            LAMBDA usedPagesMap :
                              IF ~usedPagesMap.ok
                              THEN FailR(usedPagesMap.err,
                                         <<tdef.usedPagesPage>> \o usedPagesMap.reads)
                              ELSE transformPages(
                                       f, fdState, d.config,
                                       SortedSeq({p \in 0..(chunkCount(f, P) - 1) :
                                                     pickPages(usedPagesMap.v, p)}),
                                       tdef, <<>>,
                                       <<tdef.usedPagesPage>> \o usedPagesMap.reads)))

\* BufferReader.close: fs.closeSync throws EBADF on a descriptor that is
\* not open
close(fdState) == IF fdState = "open" THEN Ok("closed") ELSE Fail(EBADF)

----------------------------------------------------------------------------
(* The files the reader is given.  A file is written from a logical        *)
(* description by the encoders below, which lay the bytes out in the       *)
(* format the decoders above read (JET3 or JET4).                          *)

LE16(n) == <<n % 256, n \div 256>>
LE24(n) == <<n % 256, (n \div 256) % 256, n \div 65536>>
LE32(n) == LE16(n % 65536) \o LE16(n \div 65536)
LE32HL(x) == LE16(x[2]) \o LE16(x[1])
Zeros(n) == [i \in 1..n |-> 0]
\* a count or offset of a row: one byte on JET3, two on JET4
LEv(cfg, n) == IF cfg.version = JETDB3 THEN <<n>> ELSE LE16(n)

\* the non-zero bytes of bs, placed from offset o on
Place(o, bs) ==
    [i \in {o + k - 1 : k \in {j \in 1..Len(bs) : bs[j] # 0}} |-> bs[i - o + 1]]

RECURSIVE Flatten(_)
Flatten(ss) == IF ss = <<>> THEN <<>> ELSE Head(ss) \o Flatten(Tail(ss))

RECURSIVE SumLen(_, _)
SumLen(ss, n) == IF n = 0 THEN 0 ELSE Len(ss[n]) + SumLen(ss, n - 1)

\* text as stored in a text column: latin1 (JET3), or 0xff 0xfe and one byte
\* per character (JET4, compressed)
encodeText(cfg, s) == IF cfg.version = JETDB3 THEN s ELSE <<255, 254>> \o s

\* a row slot: columnsInRow, the fixed area, the variable values, the end of
\* the variable data, the variable offsets last column first, varLen, and
\* the null mask
encodeRow(cfg, r) ==
    LET vls == varLenSize(cfg)
        n == Len(r.vars)
        off(i) == vls + Len(r.fixed) + SumLen(r.vars, i)
        nms == (r.cir + 7) \div 8
        maskByte(j) == LET bit(k) == IF 8 * (j - 1) + k + 1 <= Len(r.mask)
                                     THEN r.mask[8 * (j - 1) + k + 1] ELSE 0
                       IN  bit(0) + 2 * bit(1) + 4 * bit(2) + 8 * bit(3) + 16 * bit(4)
                           + 32 * bit(5) + 64 * bit(6) + 128 * bit(7)
    IN  LEv(cfg, r.cir) \o r.fixed \o Flatten(r.vars)
        \o LEv(cfg, off(n))
        \o Flatten([i \in 1..n |-> LEv(cfg, off(n - i))])
        \o LEv(cfg, n)
        \o [j \in 1..nms |-> maskByte(j)]

\* the offset of slot i (1-based) of a data page holding rs, rows being
\* stacked downwards from the end of the page
RECURSIVE slotOffset(_, _, _)
slotOffset(cfg, rs, i) ==
    (IF i = 1 THEN cfg.pageSize ELSE slotOffset(cfg, rs, i - 1)) - Len(encodeRow(cfg, rs[i]))

\* a data page: code, the header, numRows, the slot table, the rows
encodeDataPage(cfg, code, tdefPage, rs) ==
    LET raw(i) == slotOffset(cfg, rs, i) + (IF rs[i].del THEN 16384 ELSE 0)
        header == <<code, 1>> \o LE16(0) \o LE32(tdefPage)
                  \o (IF cfg.version = JETDB4 THEN Zeros(4) ELSE <<>>)
                  \o LE16(Len(rs)) \o Flatten([i \in 1..Len(rs) |-> LE16(raw(i))])
        body[i \in 0..Len(rs)] ==
            IF i = 0 THEN Place(0, header)
            ELSE Place(slotOffset(cfg, rs, i), encodeRow(cfg, rs[i])) @@ body[i - 1]
    IN  body[Len(rs)]

\* a used-pages map page: the offset of the map at 10 (JET3) or 14 (JET4),
\* and at that offset mapType and the body
encodeMapPage(cfg, mapType, body) ==
    LET at == cfg.pageSize - 1 - Len(body)
    IN  Place(0, <<1, 1>>) @@ Place(usedPagesSkip(cfg), LE16(at))
        @@ Place(at, <<mapType>> \o body)

\* a bitmap of nbytes bytes with the bits of pages set, bit 0 being page 0
encodeBitmap(pages, nbytes) ==
    [j \in 1..nbytes |->
        LET bit(k) == IF 8 * (j - 1) + k \in pages THEN 1 ELSE 0
        IN  bit(0) + 2 * bit(1) + 4 * bit(2) + 8 * bit(3) + 16 * bit(4)
            + 32 * bit(5) + 64 * bit(6) + 128 * bit(7)]

encodeColumn(cfg, c) ==
    IF cfg.version = JETDB4
    THEN <<c.type>> \o Zeros(4) \o LE16(c.number) \o LE16(c.offsetV) \o LE16(c.number)
         \o Zeros(4) \o <<c.bitmask, 0>> \o Zeros(4) \o LE16(c.offsetF) \o LE16(c.length)
    ELSE <<c.type>> \o LE16(c.number) \o LE16(c.offsetV) \o LE16(c.number)
         \o Zeros(6) \o <<c.bitmask>> \o LE16(c.offsetF) \o LE16(c.length)

encodeName(cfg, name) ==
    IF cfg.version = JETDB4
    THEN LE16(2 * Len(name)) \o Flatten([i \in 1..Len(name) |-> LE16(name[i])])
    ELSE <<Len(name)>> \o name

\* the logical bytes of a table definition: the header, no index entries,
\* the column records, the column names, and an end mark for freePages
encodeTdef(cfg, t) ==
    (IF cfg.version = JETDB4
     THEN <<t.code, 1>> \o LE16(0) \o LE32(t.nextPage) \o LE32(0) \o Zeros(4)
          \o LE32(t.numRows) \o LE32(0) \o Zeros(16)
     ELSE <<t.code, 1, 86, 67>> \o LE32(t.nextPage) \o LE32(0)
          \o LE32(t.numRows) \o LE32(0))
    \o <<78>> \o LE16(Len(t.cols)) \o LE16(t.numVarCols) \o LE16(t.numCols)
    \o LE32(0) \o LE32(0) \o <<0>> \o LE24(t.usedPagesPage) \o LE32(0)
    \o Flatten([i \in 1..Len(t.cols) |-> encodeColumn(cfg, t.cols[i])])
    \o Flatten([i \in 1..Len(t.cols) |-> encodeName(cfg, t.cols[i].name)])
    \o <<255, 255>> \o Zeros(8)

\* the sparse bytes of page n
AtPage(cfg, n, b) == [i \in {o + n * cfg.pageSize : o \in DOMAIN b} |-> b[i - n * cfg.pageSize]]

\* the pages of a table definition: the first pageSize logical bytes on page
\* n and, when it is longer, the rest on page t.nextPage from offset 8 on
tdefPages(cfg, n, t) ==
    Let(encodeTdef(cfg, t),
        LAMBDA bs :
          IF Len(bs) <= cfg.pageSize THEN AtPage(cfg, n, Place(0, bs))
          ELSE AtPage(cfg, n, Place(0, SubSeq(bs, 1, cfg.pageSize)))
               @@ AtPage(cfg, t.nextPage,
                         Place(0, <<2, 1>>)
                         @@ Place(8, SubSeq(bs, cfg.pageSize + 1, Len(bs)))))

----------------------------------------------------------------------------
(* The databases written: a header page, the catalog (tdef on page 2, map  *)
(* on page 3, rows on page 4) listing the tables A (tdef on page 5, map on *)
(* page 7, rows on pages 8 and 9) and B (tdef on page 6 and, when it       *)
(* overflows, page 12; map on page 10, an empty data page 11).  Page 13 is *)
(* the bitmap page of A's map when that map is of type 1.                  *)

MaxSlots == 2
MaxCloses == 2

NumPages == 14

NameA == <<65>>
NameB == <<66>>
NameZ == <<90>>
Names == {NameA, NameB, NameZ}

TF(type, flags) == [type |-> type, flags |-> flags]
PlainTable == TF(<<0, 1>>, <<0, 0>>)
TFs == {PlainTable, TF(<<256, 1>>, <<0, 0>>), TF(<<0, 1>>, <<0, 8>>),
        TF(<<0, 1>>, <<0, 2>>), TF(<<0, 1>>, <<32768, 0>>),
        TF(<<0, 2>>, <<0, 0>>), TF(<<1, 1>>, <<0, 0>>)}

\* the configuration the file is written for
fileConfig(k) == IF k.hdr = JETDB3 THEN [pageSize |-> 2048, version |-> JETDB3]
                 ELSE [pageSize |-> 4096, version |-> JETDB4]

fixedCol(type, number, offsetF, length, name) ==
    [type |-> type, number |-> number, offsetV |-> 0, offsetF |-> offsetF,
     length |-> length, bitmask |-> 1, name |-> name]
varCol(type, number, offsetV, name) ==
    [type |-> type, number |-> number, offsetV |-> offsetV, offsetF |-> 0,
     length |-> 0, bitmask |-> 0, name |-> name]

numVar(cols) == Cardinality({i \in 1..Len(cols) : cols[i].bitmask = 0})

fileTdef(code, nextPage, numRows, usedPagesPage, cols) ==
    [code |-> code, nextPage |-> nextPage, numRows |-> numRows,
     usedPagesPage |-> usedPagesPage, cols |-> cols,
     numCols |-> Len(cols), numVarCols |-> numVar(cols)]

catalogCols ==
    <<fixedCol(4, 0, 0, 4, NameId), fixedCol(4, 1, 4, 4, NameType),
      fixedCol(4, 2, 8, 4, NameFlags), varCol(10, 3, 0, NameName)>>

\* the columns of the catalog of scenario k, whose Id column is declared
\* with type k.idType
catalogColsOf(k) == [catalogCols EXCEPT ![1].type = k.idType]

\* the rows of the catalog, in slot order
catalogOf(k) == <<[id |-> 5, name |-> NameA, tf |-> k.tfA],
                  [id |-> 6, name |-> NameB, tf |-> k.tfB]>>

catalogRow(cfg, c) ==
    [cir |-> 4, fixed |-> LE32(c.id) \o LE32HL(c.tf.type) \o LE32HL(c.tf.flags),
     vars |-> <<encodeText(cfg, c.name)>>, mask |-> <<1, 1, 1, 1>>, del |-> FALSE]

\* table A: N (long), S (text) and a third column X of the type under test,
\* fixed of k.xfixed bytes or variable when k.xfixed = 0
colsA(k) ==
    <<fixedCol(4, 0, 0, 4, <<78>>), varCol(10, 1, 0, <<83>>),
      IF k.xfixed > 0 THEN fixedCol(k.xtype, 2, 4, k.xfixed, <<88>>)
      ELSE varCol(k.xtype, 2, 1, <<88>>)>>

\* the slots of A's data pages: slot s of page p holds N = 10 * p + s
slotsA(k, p) ==
    IF p = 8 THEN [s \in 1..MaxSlots |-> [n |-> 10 * p + s, del |-> s \in k.delA]]
    ELSE <<[n |-> 10 * p + 1, del |-> k.delA2]>>

\* the text a memo column holds inline, and the texts of the two slots of
\* the long-value page
memoText == <<109, 101>>
lvalText(i) == <<76, 48 + i>>

\* a memo column: the length at +0 (u16) and +2 (u8), the mask at +3, the
\* row and the page of the long value at +4, four bytes, and the inline text
memoBytes(cfg, k) ==
    LET t == IF k.memo.mask = 128 THEN encodeText(cfg, memoText) ELSE <<>>
    IN  LE16(Len(t)) \o <<k.memo.b2, k.memo.mask, k.memo.row>> \o LE24(k.memo.page)
        \o Zeros(4) \o t

\* the long-value page: two slots, the second one flagged deleted
lvalPage(cfg) ==
    LET t0 == encodeText(cfg, lvalText(0))
        t1 == encodeText(cfg, lvalText(1))
        o0 == cfg.pageSize - Len(t0)
        o1 == o0 - Len(t1)
    IN  Place(0, <<1, 1>>)
        @@ Place(dataNumRowsAt(cfg), LE16(2) \o LE16(o0) \o LE16(o1 + 16384))
        @@ Place(o0, t0) @@ Place(o1, t1)

xBytes(k) ==
    IF k.xfixed > 0 THEN [i \in 1..k.xfixed |-> i]
    ELSE IF k.xtype = 12 /\ k.xval = "data" THEN memoBytes(fileConfig(k), k)
    ELSE IF k.xval = "data" THEN (IF k.xtype = 10 THEN <<120>> ELSE <<7, 0, 9>>)
    ELSE <<>>

sText(slot) == <<97 + (slot.n % 10)>>

\* a row of A; when k.cirA = 2 the row was written before column X was
\* added to the table and holds N and S only
rowA(cfg, k, slot) ==
    [cir |-> k.cirA,
     fixed |-> LE32(slot.n) \o (IF k.xfixed > 0 /\ k.cirA = 3 THEN xBytes(k) ELSE <<>>),
     vars |-> <<encodeText(cfg, sText(slot))>>
              \o (IF k.xfixed > 0 \/ k.cirA = 2 THEN <<>>
                  ELSE <<IF k.xtype = 10 /\ k.xval = "data"
                         THEN encodeText(cfg, xBytes(k)) ELSE xBytes(k)>>),
     mask |-> IF k.cirA = 2 THEN <<1, 1>>
              ELSE <<1, 1, IF k.xval = "null" THEN 0 ELSE 1>>,
     del |-> slot.del]

liveA(k) == Cardinality({s \in 1..MaxSlots : s \notin k.delA}) + (IF k.delA2 THEN 0 ELSE 1)

\* table B has no rows; when its tdef overflows it has many columns with long
\* names, and otherwise the single column K
ovCols(cfg) == IF cfg.version = JETDB3 THEN 9 ELSE 24
ovNameLen(cfg) == IF cfg.version = JETDB3 THEN 250 ELSE 80
colsB(cfg, k) ==
    IF k.ovB
    THEN [i \in 1..ovCols(cfg) |->
            fixedCol(4, i - 1, 4 * (i - 1), 4,
                     [j \in 1..ovNameLen(cfg) |-> IF j = 1 THEN 75 ELSE 96 + i])]
    ELSE <<fixedCol(4, 0, 0, 4, <<75>>)>>

\* the tdef the file holds for the table of a given name
tdefOf(k, name) ==
    IF name = NameA
    THEN fileTdef(k.codeA, 0, IF k.numRowsZero THEN 0 ELSE liveA(k), 7, colsA(k))
    ELSE fileTdef(2, IF k.ovB THEN 12 ELSE 0, 0, 10, colsB(fileConfig(k), k))

mapPageA(cfg, k) ==
    IF k.mapA = 1
    THEN AtPage(cfg, 7, encodeMapPage(cfg, 1, LE32(13)))
         @@ AtPage(cfg, 13, Place(0, <<5, 1>>) @@ Place(4, encodeBitmap({8, 9}, 2)))
    ELSE AtPage(cfg, 7, encodeMapPage(cfg, k.mapA, LE32(0) \o encodeBitmap({8, 9}, 2)))

fileLen(k) == NumPages * fileConfig(k).pageSize - k.cut

\* the file of scenario k
writeFile(k) ==
    LET cfg == fileConfig(k)
        cat == catalogOf(k)
        pages == Place(0, <<0, 1>>) @@ Place(20, <<k.hdr>>)
               @@ AtPage(cfg, 1, lvalPage(cfg))
               @@ tdefPages(cfg, 2, fileTdef(k.catCode, 0, Len(cat), 3, catalogColsOf(k)))
               @@ AtPage(cfg, 3, encodeMapPage(cfg, 0, LE32(0) \o encodeBitmap({4}, 1)))
               @@ AtPage(cfg, 4, encodeDataPage(cfg, 1, 2,
                                     [i \in 1..Len(cat) |-> catalogRow(cfg, cat[i])]))
               @@ tdefPages(cfg, 5, tdefOf(k, NameA))
               @@ tdefPages(cfg, 6, tdefOf(k, NameB))
               @@ (IF k.ovB /\ k.ovNext > 0 THEN AtPage(cfg, 12, Place(4, LE32(k.ovNext)))
                   ELSE EmptyBytes)
               @@ mapPageA(cfg, k)
               @@ AtPage(cfg, 8, encodeDataPage(cfg, k.dataCode, 5,
                                     [s \in 1..MaxSlots |-> rowA(cfg, k, slotsA(k, 8)[s])]))
               @@ AtPage(cfg, 9, encodeDataPage(cfg, k.dataCode9, 5, <<rowA(cfg, k, slotsA(k, 9)[1])>>))
               @@ AtPage(cfg, 10, encodeMapPage(cfg, 0, LE32(0) \o encodeBitmap({11}, 2)))
               @@ AtPage(cfg, 11, encodeDataPage(cfg, 1, 6, <<>>))
    IN  Let(pages, LAMBDA all :
              Buf(fileLen(k), [o \in {x \in DOMAIN all : x < fileLen(k)} |-> all[o]]))

Base(h) ==
    [hdr |-> h, catCode |-> 2, idType |-> 4, codeA |-> 2, dataCode |-> 1, dataCode9 |-> 1,
     tfA |-> PlainTable, tfB |-> PlainTable,
     delA |-> {}, delA2 |-> FALSE, numRowsZero |-> FALSE,
     xtype |-> 10, xfixed |-> 0, xval |-> "data",
     ovB |-> FALSE, mapA |-> 0, cut |-> 0, cirA |-> 3, ovNext |-> 0,
     memo |-> [mask |-> 0, b2 |-> 0, page |-> 0, row |-> 0]]

Versions == {JETDB3, JETDB4}

\* the types of column X tried: <<type, fixed length or 0>>
XKinds == {<<10, 0>>, <<9, 0>>, <<11, 0>>, <<5, 8>>, <<15, 16>>, <<16, 17>>, <<4, 4>>}

\* the memo columns tried: inline, in a long-value page (a slot, a deleted
\* slot, a slot the page has not, a page that is no data page, a page
\* number with its top bit set), and other masks
Memo(mask, b2, page, row) == [mask |-> mask, b2 |-> b2, page |-> page, row |-> row]
Memos ==
    {Memo(128, 0, 0, 0), Memo(128, 1, 0, 0),
     Memo(64, 0, 1, 0), Memo(64, 0, 1, 1), Memo(64, 0, 1, 2), Memo(64, 0, 1, 255),
     Memo(64, 0, 5, 0), Memo(64, 0, 8388609, 0),
     Memo(0, 0, 1, 0), Memo(32, 0, 1, 0), Memo(192, 0, 1, 0)}

Scenarios ==
    {Base(h) : h \in 0..255}
    \cup {[Base(h) EXCEPT !.xtype = 12, !.memo = m] : h \in Versions, m \in Memos}
    \cup {[Base(h) EXCEPT !.catCode = c] : h \in Versions, c \in {0, 1}}
    \cup {[Base(h) EXCEPT !.codeA = 1] : h \in Versions}
    \cup {[Base(h) EXCEPT !.idType = t] : h \in Versions, t \in {3, 8, 10}}
    \cup {[Base(h) EXCEPT !.dataCode = 2] : h \in Versions}
    \cup {[Base(h) EXCEPT !.dataCode9 = c, !.mapA = m] :
             h \in Versions, c \in {0, 2, 4}, m \in {0, 1}}
    \cup {[Base(h) EXCEPT !.tfA = a, !.tfB = b] : h \in Versions, a \in TFs, b \in TFs}
    \cup {[Base(h) EXCEPT !.delA = d, !.delA2 = e, !.numRowsZero = z] :
             h \in Versions, d \in SUBSET (1..MaxSlots), e \in BOOLEAN, z \in BOOLEAN}
    \cup {[Base(h) EXCEPT !.xtype = x[1], !.xfixed = x[2], !.xval = v] :
             h \in Versions, x \in XKinds, v \in {"data", "empty", "null"}}
    \cup {[Base(h) EXCEPT !.ovB = TRUE, !.tfA = a] : h \in Versions, a \in TFs}
    \cup {[Base(h) EXCEPT !.ovB = TRUE, !.ovNext = 11] : h \in Versions}
    \cup {[Base(h) EXCEPT !.xtype = x[1], !.xfixed = x[2], !.cirA = 2] :
             h \in Versions, x \in XKinds}
    \cup {[Base(h) EXCEPT !.mapA = m] : h \in Versions, m \in {1, 2}}
    \cup {[Base(h) EXCEPT !.cut = c, !.mapA = m] :
             h \in Versions, c \in {1, 100, 5 * 2048 + 100}, m \in {0, 1}}

----------------------------------------------------------------------------
(* The program *)

\* the outcome of the last call: the value returned, or the error thrown,
\* and the pages passed to readBuffer
Result(op, arg, ok, val, err, reads) ==
    [op |-> op, arg |-> arg, ok |-> ok, val |-> val, err |-> err, reads |-> reads]

NoDb == [config |-> [pageSize |-> 0, version |-> -1], userTables |-> <<>>, schema |-> <<>>]

Init ==
    /\ scn \in Scenarios
    /\ file = writeFile(scn)
    /\ fd = "none"
    /\ pc = "new"
    /\ db = NoDb
    /\ initErr = NoErr
    /\ nClose = 0
    /\ last = Result("none", <<>>, TRUE, <<>>, NoErr, <<>>)

\* new JetDb(filename): the file is opened, the header read and decoded, and
\* init() called without awaiting it: what init() throws rejects the promise
\* it returned, and the constructor returns the object
Construct ==
    /\ pc = "new"
    /\ \E config \in {databaseConfig(readBuffer(file, "open", 2048, 0).v)} :
          IF ~config.ok
          THEN /\ pc' = "threw"
               /\ UNCHANGED <<db, initErr>>
               /\ last' = Result("new", <<>>, FALSE, <<>>, config.err, <<0>>)
          ELSE \E r \in {init(file, "open", config.v)} :
                  /\ pc' = "ready"
                  /\ db' = [config |-> config.v, userTables |-> r.userTables,
                            schema |-> r.schema]
                  /\ initErr' = r.err
                  /\ last' = Result("new", <<>>, TRUE, <<>>, NoErr, <<0>> \o r.reads)
    /\ fd' = "open"
    /\ UNCHANGED <<file, scn, nClose>>

Tables ==
    /\ pc = "ready"
    /\ \E r \in {tables(db)} :
          last' = Result("tables", <<>>, r.ok, IF r.ok THEN r.v ELSE <<>>, r.err, <<>>)
    /\ db' = queryFrame(db)
    /\ UNCHANGED <<file, scn, fd, pc, initErr, nClose>>

Columns(table) ==
    /\ pc = "ready"
    /\ \E r \in {columns(db, table)} :
          last' = Result("columns", table, r.ok, IF r.ok THEN r.v ELSE <<>>, r.err, <<>>)
    /\ db' = queryFrame(db)
    /\ UNCHANGED <<file, scn, fd, pc, initErr, nClose>>

ColumnsWithType(table) ==
    /\ pc = "ready"
    /\ \E r \in {columnsWithType(db, table)} :
          last' = Result("columnsWithType", table, r.ok, IF r.ok THEN r.v ELSE <<>>, r.err,
                         <<>>)
    /\ db' = queryFrame(db)
    /\ UNCHANGED <<file, scn, fd, pc, initErr, nClose>>

TablesWithRows ==
    /\ pc = "ready"
    /\ \E r \in {tablesWithRows(db)} :
          last' = Result("tablesWithRows", <<>>, r.ok, IF r.ok THEN r.v ELSE <<>>, r.err,
                         <<>>)
    /\ db' = queryFrame(db)
    /\ UNCHANGED <<file, scn, fd, pc, initErr, nClose>>

Rows(table) ==
    /\ pc = "ready"
    /\ \E r \in {rows(file, fd, db, table)} :
          last' = Result("rows", table, r.ok, IF r.ok THEN r.v ELSE <<>>, r.err, r.reads)
    /\ db' = queryFrame(db)
    /\ UNCHANGED <<file, scn, fd, pc, initErr, nClose>>

\* streamRows(table) and its stream read to the end.  The callbacks of the
\* pipeline read the file, the list of pages computed before the stream was
\* made and the schema, none of which another call on the handle changes.
StreamRows(table) ==
    /\ pc = "ready"
    /\ \E r \in {streamRows(file, fd, db, table)} :
          last' = Result("streamRows", table, r.ok, IF r.ok THEN r.v ELSE <<>>, r.err,
                         r.reads)
    /\ db' = queryFrame(db)
    /\ UNCHANGED <<file, scn, fd, pc, initErr, nClose>>

\* this.reader.readBuffer(this.config.pageSize, position)
ReadBuffer(position) ==
    /\ pc = "ready"
    /\ \E r \in {readBuffer(file, fd, db.config.pageSize, position)} :
          last' = Result("readBuffer", position, r.ok, IF r.ok THEN r.v ELSE <<>>,
                         r.err, <<position>>)
    /\ UNCHANGED <<file, scn, fd, pc, db, initErr, nClose>>

Close ==
    /\ pc = "ready"
    /\ nClose < MaxCloses
    /\ \E r \in {close(fd)} :
          /\ fd' = IF r.ok THEN r.v ELSE fd
          /\ last' = Result("close", <<>>, r.ok, <<>>, r.err, <<>>)
    /\ nClose' = nClose + 1
    /\ UNCHANGED <<file, scn, pc, db, initErr>>

Next ==
    \/ Construct
    \/ Tables
    \/ \E table \in Names : Columns(table)
    \/ \E table \in Names : ColumnsWithType(table)
    \/ TablesWithRows
    \/ \E table \in Names : Rows(table)
    \/ \E table \in Names : StreamRows(table)
    \/ \E position \in 0..NumPages : ReadBuffer(position)
    \/ Close

Spec == Init /\ [][Next]_vars

----------------------------------------------------------------------------
(* What the file of a scenario holds, read off the scenario itself *)

\* (t & 0x00FFFFFF) = 1 and (f & 0x80000002) = 0 by arithmetic on the halves
IsUserRow(tf) ==
    /\ tf.type[1] % 256 = 0
    /\ tf.type[2] = 1
    /\ tf.flags[1] < 32768
    /\ (tf.flags[2] \div 2) % 2 = 0

userRowsOf(k) == SelectSeq(catalogOf(k), LAMBDA c : IsUserRow(c.tf))
userNamesOf(k) == [i \in 1..Len(userRowsOf(k)) |-> userRowsOf(k)[i].name]
isUserName(k, name) == \E i \in 1..Len(userRowsOf(k)) : userRowsOf(k)[i].name = name

\* the slots of a table that do not carry 0x4000, pages in list order
liveSlotsOf(k, name) ==
    IF name = NameA
    THEN SelectSeq(slotsA(k, 8) \o slotsA(k, 9), LAMBDA x : ~x.del)
    ELSE <<>>

colNamesOf(k, name) ==
    [i \in 1..Len(tdefOf(k, name).cols) |-> tdefOf(k, name).cols[i].name]

\* the header names a version and the page codes of the catalog and of the
\* tdefs of the user tables are 0x02
schemaReadable(k) ==
    /\ k.hdr \in Versions
    /\ k.catCode = 2
    /\ k.idType = 4
    /\ (k.codeA = 2 \/ ~IsUserRow(k.tfA))

\* a memo column kept in a long-value page names a slot of page 1
isLval(k) == k.xtype = 12 /\ k.xval = "data" /\ k.memo.mask = 64
lvalAddressed(k) == isLval(k) => (k.memo.page = 1 /\ k.memo.row < 2)

\* moreover the table's pages are whole and its data pages begin with 0x01,
\* and so do the long-value pages its memo columns name
rowsReadable(k, name) ==
    /\ schemaReadable(k)
    /\ isUserName(k, name)
    /\ k.cut = 0
    /\ k.dataCode = 1
    /\ k.dataCode9 = 1
    /\ (name = NameA => lvalAddressed(k))

SentinelText == <<91, 117, 110, 107, 110, 111, 119, 110, 32, 116, 121, 112, 101, 93>>
Supported == {1, 2, 3, 4, 7, 8, 10, 12}

Opened == pc # "new"

----------------------------------------------------------------------------
(* C1 *)

\* C1: header byte 0x00 yields {JETDB3, pageSize 2048}, 0x01 yields {JETDB4,
\* pageSize 4096}, and every other byte b in 2..255 fails with an 'Unknown
\* database version' error that carries b.
C1_HeaderDecoding ==
    Opened =>
        CASE scn.hdr = 0 -> pc = "ready" /\ db.config = [pageSize |-> 2048, version |-> JETDB3]
          [] scn.hdr = 1 -> pc = "ready" /\ db.config = [pageSize |-> 4096, version |-> JETDB4]
          [] OTHER -> /\ pc = "threw"
                      /\ last.err = Err("Error", "Unknown database version", scn.hdr)

----------------------------------------------------------------------------
(* C2 *)

\* C2: when page 2 does not begin with 0x02, opening fails: the constructor
\* throws the error of the tdef parser and no handle is returned.
C2_BadCatalogPageFailsOpen ==
    (Opened /\ scn.hdr \in Versions /\ scn.catCode # 2) =>
        /\ pc = "threw"
        /\ ~last.ok
        /\ last.err = AssertionError("pagecode")

----------------------------------------------------------------------------
(* C3 *)

\* C3: tables() returns one name per catalog row with (Type & 0x00FFFFFF) = 1
\* and (Flags & 0x80000002) = 0, in the order of the catalog rows; it returns
\* whenever the catalog was decoded.
C3_TablesAreUserRows ==
    (last.op = "tables" /\ scn.catCode = 2) =>
        /\ last.ok
        /\ last.val = userNamesOf(scn)
        /\ Len(last.val) = Cardinality({i \in 1..Len(catalogOf(scn)) :
                                           IsUserRow(catalogOf(scn)[i].tf)})

\* tables() has dropped a row for its Flags and kept one whose Type has bits
\* above the low 24
C3_Witness ==
    /\ last.op = "tables"
    /\ last.ok
    /\ scn.tfA.type = <<256, 1>>
    /\ scn.tfB.flags = <<32768, 0>>
    /\ last.val = <<NameA>>

----------------------------------------------------------------------------
(* C4 *)

\* C4: columns(T) has the numCols entries of T's tdef, in tdef order, also
\* when the tdef continues on a next page, and returns for every user table
\* of a readable schema; every row of rows(T) has one value per column of
\* columns(T), in that order.
C4_WidthConsistency ==
    /\ (last.op = "columns" /\ last.ok) =>
          /\ Len(last.val) = tdefOf(scn, last.arg).numCols
          /\ last.val = colNamesOf(scn, last.arg)
    /\ (last.op = "columns" /\ schemaReadable(scn) /\ isUserName(scn, last.arg)) => last.ok
    /\ (last.op = "rows" /\ last.ok) =>
          \A r \in 1..Len(last.val) :
              /\ Len(last.val[r].columns) = Len(columns(db, last.arg).v)
              /\ \A i \in 1..Len(last.val[r].columns) :
                    /\ last.val[r].columns[i].name = columns(db, last.arg).v[i]
                    /\ last.val[r].columns[i].position = tdefOf(scn, last.arg).cols[i].number

\* columns(B) has returned the columns of a tdef that continues on page 12
C4_Witness ==
    /\ last.op = "columns"
    /\ last.arg = NameB
    /\ last.ok
    /\ scn.ovB
    /\ db.schema[findIndex(db.userTables, NameB) + 1].nextPage = 12
    /\ Len(last.val) = ovCols(db.config)

----------------------------------------------------------------------------
(* C5 *)

\* C5: on a file that is whole, rows(T) is the rows of the slots without
\* 0x4000 of T's used pages, pages in list order and slots in slot order; it
\* returns for every user table whose pages are readable.
C5_RowsAreLiveSlots ==
    /\ (last.op = "rows" /\ last.ok /\ scn.cut = 0) =>
          /\ Len(last.val) = Len(liveSlotsOf(scn, last.arg))
          /\ \A r \in 1..Len(last.val) :
                last.val[r].columns[1].value = NumV(0, liveSlotsOf(scn, last.arg)[r].n)
    /\ (last.op = "rows" /\ rowsReadable(scn, last.arg) /\ fd = "open") => last.ok

\* rows(A) has skipped a deleted slot of page 8 and gone on to page 9
C5_Witness ==
    /\ last.op = "rows"
    /\ last.arg = NameA
    /\ last.ok
    /\ scn.delA = {1}
    /\ ~scn.delA2
    /\ Len(last.val) = MaxSlots
    /\ last.reads = <<7, 8, 9>>

----------------------------------------------------------------------------
(* C6 *)

numRowsOf(table) == db.schema[findIndex(db.userTables, table) + 1].numRows

\* C6 as stated: for a table whose tdef records numRows = 0, rows(T) is empty.
C6_EmptyWhenNumRowsZero ==
    (last.op = "rows" /\ last.ok /\ numRowsOf(last.arg) = 0) => last.val = <<>>

\* C6: for a table whose tdef records numRows = 0 and whose used pages hold
\* no slot without 0x4000, rows(T) is empty.
C6_EmptyWhenNoLiveSlot ==
    (/\ last.op = "rows"
     /\ last.ok
     /\ numRowsOf(last.arg) = 0
     /\ liveSlotsOf(scn, last.arg) = <<>>) => last.val = <<>>

\* rows(A) has read pages whose slots are all deleted, numRows being 0
C6_Witness ==
    /\ last.op = "rows"
    /\ last.arg = NameA
    /\ last.ok
    /\ numRowsOf(NameA) = 0
    /\ scn.delA = 1..MaxSlots
    /\ scn.delA2
    /\ last.reads = <<7, 8, 9>>

----------------------------------------------------------------------------
(* C7 *)

\* C7: columns(name) and rows(name) with a name that matches no catalog
\* user row fail with an UnknownTable error that carries the name.
C7_UnknownTableError ==
    (last.op \in {"columns", "rows"} /\ ~isUserName(scn, last.arg)) =>
        /\ ~last.ok
        /\ last.err.kind = "UnknownTable"
        /\ last.err.arg = last.arg

----------------------------------------------------------------------------
(* C8 *)

\* C8: every close() on a handle succeeds and leaves it closed, the second
\* as the first.
C8_CloseIdempotent ==
    last.op = "close" => (last.ok /\ fd = "closed")

----------------------------------------------------------------------------
(* C9 *)

\* C9: readBuffer(P, n) on an open file returns the file bytes [nP, nP + P),
\* and fails when fewer than P bytes are there.
C9_ReadBufferExactOrFails ==
    (last.op = "readBuffer" /\ fd = "open") =>
        LET P == db.config.pageSize
            n == last.arg
        IN  IF ShortRead(file, P, n) THEN ~last.ok
            ELSE /\ last.ok
                 /\ last.val.len = P
                 /\ DOMAIN last.val.b = {o - n * P : o \in {x \in DOMAIN file.b :
                                                        x >= n * P /\ x < n * P + P}}
                 /\ \A o \in DOMAIN last.val.b : last.val.b[o] = file.b[o + n * P]

----------------------------------------------------------------------------
(* C10 *)

\* the columns N and S of row r of A hold what slot x holds
decodedNormally(row, x) ==
    /\ row.columns[1].value = NumV(0, x.n)
    /\ row.columns[2].value = StrV(sText(x))

\* C10 as stated: every column of a decoded row whose type is not one of
\* 1, 2, 3, 4, 7, 8, 10, 12 has the value "[unknown type]", decoding does not
\* fail, and the other columns are decoded normally.
C10_UnknownTypeSentinel ==
    /\ (last.op = "rows" /\ last.ok /\ last.arg = NameA) =>
          \A r \in 1..Len(last.val) :
              /\ scn.cut = 0 => decodedNormally(last.val[r], liveSlotsOf(scn, NameA)[r])
              /\ \A i \in 1..Len(last.val[r].columns) :
                    last.val[r].columns[i].type \notin Supported
                        => last.val[r].columns[i].value = StrV(SentinelText)
    /\ (last.op = "rows" /\ rowsReadable(scn, last.arg) /\ fd = "open") => last.ok

\* C10: every column of a decoded row whose type is not one of 1, 2, 3, 4, 7,
\* 8, 10, 12 and whose bytes in the row are not empty has the value
\* "[unknown type]"; when they are empty it is null or '' as the null mask
\* says; decoding does not fail, and the other columns are decoded normally
\* (from a file that holds every page whole: see C9 for a shorter one).
C10_UnknownTypeSentinelWhenData ==
    /\ (last.op = "rows" /\ last.ok /\ last.arg = NameA) =>
          \A r \in 1..Len(last.val) :
              /\ scn.cut = 0 => decodedNormally(last.val[r], liveSlotsOf(scn, NameA)[r])
              /\ \A i \in 1..Len(last.val[r].columns) :
                    LET c == last.val[r].columns[i]
                    IN  c.type \notin Supported =>
                            IF c.rawValue.length > 0 THEN c.value = StrV(SentinelText)
                            ELSE c.value = (IF c.isNull THEN NullV ELSE StrV(<<>>))
    /\ (last.op = "rows" /\ scn.xtype \notin Supported
            /\ rowsReadable(scn, last.arg) /\ fd = "open") => last.ok

\* rows(A) has decoded rows whose third column is of type 9 and not empty
C10_Witness ==
    /\ last.op = "rows"
    /\ last.arg = NameA
    /\ last.ok
    /\ scn.xtype = 9
    /\ scn.xval = "data"
    /\ Len(last.val) = MaxSlots + 1
    /\ last.val[1].columns[3].type = 9
    /\ last.val[1].columns[3].rawValue.length = 3
    /\ last.val[1].columns[3].value = StrV(SentinelText)

----------------------------------------------------------------------------
(* C11 *)

\* C11: on a file made of whole pages, whenever rows(T) returns, the stream
\* of streamRows(T) ends without an error and its batches, concatenated in
\* the order delivered, are the rows of rows(T): same rows, same order, same
\* values; and there is one batch for each page of the used-pages list.
C11_StreamEqualsRows ==
    (last.op = "streamRows" /\ file.len % db.config.pageSize = 0) =>
        \A r \in {rows(file, fd, db, last.arg)} :
            /\ r.ok => (last.ok /\ Flatten(last.val) = r.v)
            /\ last.ok => r.ok

\* the stream of A has delivered two batches, one per data page, with the
\* rows of all the slots
C11_Witness ==
    /\ last.op = "streamRows"
    /\ last.arg = NameA
    /\ last.ok
    /\ file.len % db.config.pageSize = 0
    /\ Len(last.val) = 2
    /\ Len(last.val[1]) = MaxSlots
    /\ Len(last.val[2]) = 1
    /\ Len(Flatten(last.val)) = MaxSlots + 1

----------------------------------------------------------------------------
(* C12 *)

\* the slots of A that do not carry 0x4000, as <<page, slot>>, in the order
\* rows(A) meets them
liveRefsA(k) ==
    SelectSeq([i \in 1..(MaxSlots + 1) |-> IF i <= MaxSlots THEN <<8, i>> ELSE <<9, 1>>],
              LAMBDA x : ~slotsA(k, x[1])[x[2]].del)

rowsOfPageA(cfg, k, p) == [s \in 1..Len(slotsA(k, p)) |-> rowA(cfg, k, slotsA(k, p)[s])]

\* where the slot begins and ends in its page
slotStart(cfg, k, ref) == slotOffset(cfg, rowsOfPageA(cfg, k, ref[1]), ref[2])
slotEnd(cfg, k, ref) ==
    IF ref[2] = 1 THEN cfg.pageSize
    ELSE slotOffset(cfg, rowsOfPageA(cfg, k, ref[1]), ref[2] - 1)

\* bit n of the null mask of the slot, read in the file: the mask is the
\* last ceil(columnsInRow / 8) bytes of the slot, bit 0 of a byte first
maskBit(f, cfg, k, ref, n) ==
    LET base == ref[1] * cfg.pageSize
        cir == readVar(cfg, f, base + slotStart(cfg, k, ref))
        nms == (cir + 7) \div 8
    IN  Bit(U8(f, base + slotEnd(cfg, k, ref) - nms + n \div 8), n % 8)

\* C12: in every decoded row, a column's isNull is true exactly when bit
\* c.number of the null mask of the row's slot is 0.
C12_IsNullIffMaskBitZero ==
    (last.op = "rows" /\ last.ok /\ last.arg = NameA /\ scn.cut = 0) =>
        /\ Len(last.val) = Len(liveRefsA(scn))
        /\ \A r \in 1..Len(last.val) :
              \A i \in 1..Len(last.val[r].columns) :
                  last.val[r].columns[i].isNull
                      <=> maskBit(file, db.config, scn, liveRefsA(scn)[r],
                                  last.val[r].columns[i].position) = 0

\* rows(A) has decoded a row whose mask has bit 2 at 0 and bits 0, 1 at 1
C12_Witness ==
    /\ last.op = "rows"
    /\ last.arg = NameA
    /\ last.ok
    /\ scn.xval = "null"
    /\ Len(last.val) = MaxSlots + 1
    /\ last.val[2].columns[3].isNull
    /\ ~last.val[2].columns[1].isNull
    /\ ~last.val[2].columns[2].isNull
    /\ maskBit(file, db.config, scn, <<8, 2>>, 2) = 0
    /\ maskBit(file, db.config, scn, <<8, 2>>, 1) = 1

----------------------------------------------------------------------------
(* C13 *)

\* C13: in every decoded row, a column's value is null exactly when the bit
\* of the null mask for the column is 0, for fixed and variable columns.
C13_NullIffMaskBitZero ==
    (last.op = "rows" /\ last.ok /\ last.arg = NameA /\ scn.cut = 0) =>
        \A r \in 1..Len(last.val) :
            \A i \in 1..Len(last.val[r].columns) :
                last.val[r].columns[i].value = NullV
                    <=> maskBit(file, db.config, scn, liveRefsA(scn)[r],
                                last.val[r].columns[i].position) = 0

----------------------------------------------------------------------------
(* C14 *)

\* C14: a slot with 0x4000 gives no row, and the row of every other slot is
\* the same whichever other slots are deleted: it is decoded from the bytes
\* of its own slot and its number is the index of the slot in the offset
\* table of its page.
C14_SlotIndexKept ==
    (last.op = "rows" /\ last.ok /\ last.arg = NameA /\ scn.cut = 0) =>
        /\ Len(last.val) = Len(liveRefsA(scn))
        /\ \A r \in 1..Len(last.val) :
              LET ref == liveRefsA(scn)[r]
              IN  /\ last.val[r].columns[1].rawValue.start
                        = slotStart(db.config, scn, ref) + varLenSize(db.config)
                  /\ last.val[r].columns[1].value = NumV(0, slotsA(scn, ref[1])[ref[2]].n)
                  /\ last.val[r].number = ref[2] - 1

----------------------------------------------------------------------------
(* The decoders on their own: parseOffsets on a data page with any slot    *)
(* table, parseUsedPagesMap on any map, decompressUnicode on any bytes.    *)
(* scn is the input, file the bytes holding it, last the value returned.   *)

MaxRaw == 2
MaxMapBytes == 2
MaxEntries == 2
MaxText == 3

SeqsUpTo(S, n) == UNION {[1..m -> S] : m \in 0..n}

\* RawValues: 16-bit slot entries below, at and above both page sizes, with
\* bit 13, the deleted flag, the lookup flag and all bits set.  MapEntries:
\* the pages an entry of a paged map can name (0: none).
DecoderInputs ==
    LET RawValues == {0, 100, 2047, 2048, 4095, 4096, 8191, 8292, 16484, 32868, 65535}
        MapBytes == {0, 1, 130, 255}
        MapStarts == {0, 5, 1000}
        MapEntries == {0, 2, 3}
        PageBits == {<<1>>, <<130, 255>>}
        TextBytes == {0, 65, 97, 127}
    IN  {[kind |-> "offsets", hdr |-> h, raw |-> r] :
            h \in Versions, r \in SeqsUpTo(RawValues, MaxRaw)}
        \cup {[kind |-> "inline", hdr |-> h, mapType |-> t, pageStart |-> ps, bits |-> b] :
                 h \in Versions, t \in {0, 2}, ps \in MapStarts,
                 b \in SeqsUpTo(MapBytes, MaxMapBytes)}
        \cup {[kind |-> "paged", hdr |-> h, entries |-> e, pageBits |-> b] :
                 h \in Versions, e \in SeqsUpTo(MapEntries, MaxEntries), b \in PageBits}
        \cup {[kind |-> "text", hdr |-> JETDB4, s |-> t] :
                 t \in SeqsUpTo(TextBytes, MaxText)}

\* the bitmap page pn of a paged input: after the 4-byte header the bytes
\* pageBits (page 2) or pageBits reversed (page 3), and bit 7 of the last
\* byte of page 3
bitmapPage(cfg, k, pn) ==
    Place(0, <<5, 1>>)
    @@ Place(4, IF pn = 2 THEN k.pageBits ELSE Reverse(k.pageBits))
    @@ (IF pn = 3 THEN Place(cfg.pageSize - 1, <<128>>) ELSE EmptyBytes)

\* the bytes given to the decoder
decoderFile(k) ==
    LET cfg == fileConfig(k)
    IN  CASE k.kind = "offsets" ->
               Buf(cfg.pageSize,
                   Place(0, <<1, 1>>)
                   @@ Place(dataNumRowsAt(cfg),
                            LE16(Len(k.raw))
                            \o Flatten([i \in 1..Len(k.raw) |-> LE16(k.raw[i])])))
          [] k.kind = "inline" ->
               Buf(2 * cfg.pageSize,
                   AtPage(cfg, 1, encodeMapPage(cfg, k.mapType,
                                                LE32(k.pageStart) \o k.bits)))
          [] k.kind = "paged" ->
               Buf(4 * cfg.pageSize,
                   AtPage(cfg, 1, encodeMapPage(cfg, 1,
                                      Flatten([i \in 1..Len(k.entries) |->
                                                  LE32(k.entries[i])])))
                   @@ AtPage(cfg, 2, bitmapPage(cfg, k, 2))
                   @@ AtPage(cfg, 3, bitmapPage(cfg, k, 3)))
          [] k.kind = "text" -> Buf(Len(k.s), Place(0, k.s))

InitDecoders ==
    /\ scn \in DecoderInputs
    /\ file = decoderFile(scn)
    /\ fd = "open"
    /\ pc = "input"
    /\ db = [NoDb EXCEPT !.config = fileConfig(scn)]
    /\ initErr = NoErr
    /\ nClose = 0
    /\ last = Result("none", <<>>, TRUE, <<>>, NoErr, <<>>)

\* parseOffsets(buffer), buffer being the page
ParseOffsets ==
    /\ pc = "input"
    /\ scn.kind = "offsets"
    /\ \E r \in {parseOffsets(db.config, file)} :
          last' = Result("parseOffsets", <<>>, r.ok, IF r.ok THEN r.v ELSE <<>>, r.err, <<>>)
    /\ pc' = "done"
    /\ UNCHANGED <<file, scn, fd, db, initErr, nClose>>

\* parseUsedPagesMap(this.reader.readBuffer(pageSize, 1))
ParseUsedPagesMap ==
    /\ pc = "input"
    /\ scn.kind \in {"inline", "paged"}
    /\ \E r \in {parseUsedPagesMap(file, fd, db.config,
                                    readBuffer(file, fd, db.config.pageSize, 1).v)} :
          last' = Result("parseUsedPagesMap", <<>>, r.ok, IF r.ok THEN r.v ELSE <<>>,
                         r.err, r.reads)
    /\ pc' = "done"
    /\ UNCHANGED <<file, scn, fd, db, initErr, nClose>>

\* decompressUnicode(src, src.length, src.length * 2), as parseText calls it
DecompressUnicode ==
    /\ pc = "input"
    /\ scn.kind = "text"
    /\ last' = Result("decompressUnicode", <<>>, TRUE,
                      decompressUnicode(Bytes(file), file.len, file.len * 2), NoErr, <<>>)
    /\ pc' = "done"
    /\ UNCHANGED <<file, scn, fd, db, initErr, nClose>>

NextDecoders ==
    \/ ParseOffsets
    \/ ParseUsedPagesMap
    \/ DecompressUnicode

SpecDecoders == InitDecoders /\ [][NextDecoders]_vars

----------------------------------------------------------------------------
(* C15 *)

\* C15: every slot parseOffsets makes from a data page has offset = raw[i] &
\* 0x1FFF, next = pageSize for the first slot and raw[i-1] & 0x1FFF for the
\* others, and offset < next <= pageSize, whatever the 16-bit entries are.
C15_SlotBounds ==
    (last.op = "parseOffsets" /\ last.ok) =>
        /\ Len(last.val) = Len(scn.raw)
        /\ \A i \in 1..Len(last.val) :
              /\ last.val[i].offset = scn.raw[i] % 8192
              /\ last.val[i].next = (IF i = 1 THEN db.config.pageSize
                                     ELSE scn.raw[i - 1] % 8192)
              /\ last.val[i].offset < last.val[i].next
              /\ last.val[i].next <= db.config.pageSize

----------------------------------------------------------------------------
(* C16 *)

\* C16: in every decoded row, the bytes of every column that is decoded lie
\* inside the slot of the row: a fixed column is read at offset + offsetF +
\* varLenSize for column.length bytes, a variable column that is present
\* from a positive length inside the slot, and neither passes the slot's end.
C16_ReadsInsideSlot ==
    (last.op = "rows" /\ last.ok /\ last.arg = NameA /\ scn.cut = 0) =>
        /\ Len(last.val) = Len(liveRefsA(scn))
        /\ \A r \in 1..Len(last.val) :
              \A i \in 1..Len(last.val[r].columns) :
                  LET raw == last.val[r].columns[i].rawValue
                      col == colsA(scn)[i]
                      from == slotStart(db.config, scn, liveRefsA(scn)[r])
                      to == slotEnd(db.config, scn, liveRefsA(scn)[r])
                  IN  raw.length > 0 =>
                        /\ col.bitmask = 1 =>
                              /\ raw.start = from + col.offsetF + varLenSize(db.config)
                              /\ raw.length = col.length
                        /\ from <= raw.start
                        /\ raw.start + raw.length <= to

----------------------------------------------------------------------------
(* C17 *)

StrictlyAscending(q) == \A i \in 1..(Len(q) - 1) : q[i] < q[i + 1]
Elements(q) == {q[i] : i \in 1..Len(q)}

\* C17: for an inline map (mapType 0) parseUsedPagesMap returns the pages
\* pageStart + 8 b + k for which bit k (k = 0 the least significant) of byte
\* b of the bitmap is 1, each once, in strictly ascending order, and reads
\* no page.
C17_InlineMapPages ==
    (last.op = "parseUsedPagesMap" /\ scn.kind = "inline" /\ scn.mapType = 0) =>
        /\ last.ok
        /\ last.reads = <<>>
        /\ StrictlyAscending(last.val)
        /\ Elements(last.val)
              = {scn.pageStart + 8 * (x[1] - 1) + x[2] :
                    x \in {y \in (1..Len(scn.bits)) \X (0..7) :
                              (scn.bits[y[1]] \div (2 ^ y[2])) % 2 = 1}}

\* the inline map at 1000 with the bytes 0x82, 0xFF has given ten pages, the
\* first for bit 1 of byte 0 and the last for bit 7 of byte 1
C17_Witness ==
    /\ last.op = "parseUsedPagesMap"
    /\ scn.kind = "inline"
    /\ scn.mapType = 0
    /\ scn.pageStart = 1000
    /\ scn.bits = <<130, 255>>
    /\ last.ok
    /\ Len(last.val) = 10
    /\ last.val[1] = 1001
    /\ last.val[2] = 1007
    /\ last.val[10] = 1015

----------------------------------------------------------------------------
(* C18 *)

\* the indices j of the bits that are 1 in page pn of the file after its
\* 4-byte header, bit 0 of the byte at offset 4 being j = 0
bitsOfPage(f, P, pn) ==
    {8 * (x[1] - pn * P - 4) + x[2] :
        x \in {y \in {o \in DOMAIN f.b : o >= pn * P + 4 /\ o < (pn + 1) * P} \X (0..7) :
                  (f.b[y[1]] \div (2 ^ y[2])) % 2 = 1}}

\* C18: for a paged map (mapType 1) parseUsedPagesMap reads one page for each
\* entry that is not 0, in entry order, and none for an entry that is 0; bit
\* j of the page of entry i, counted after the page's 4-byte header, gives
\* page i (pageSize - 4) 8 + j; the result is strictly ascending.
C18_PagedMapPages ==
    (last.op = "parseUsedPagesMap" /\ scn.kind = "paged") =>
        /\ last.ok
        /\ last.reads = SelectSeq(scn.entries, LAMBDA e : e # 0)
        /\ StrictlyAscending(last.val)
        /\ Elements(last.val)
              = UNION {{(i - 1) * (db.config.pageSize - 4) * 8 + j :
                           j \in bitsOfPage(file, db.config.pageSize, scn.entries[i])} :
                       i \in {n \in 1..Len(scn.entries) : scn.entries[n] # 0}}

\* a paged map whose entry 0 is 0 and entry 1 names page 3 has read page 3
\* once, and the last bit of that page has given the last page of entry 1
C18_Witness ==
    /\ last.op = "parseUsedPagesMap"
    /\ scn.kind = "paged"
    /\ scn.entries = <<0, 3>>
    /\ scn.pageBits = <<130, 255>>
    /\ last.ok
    /\ last.reads = <<3>>
    /\ Len(last.val) = 11
    /\ last.val[1] = (db.config.pageSize - 4) * 8
    /\ last.val[11] = 2 * (db.config.pageSize - 4) * 8 - 1

----------------------------------------------------------------------------
(* C19 *)

\* the pages init() reads for the table definition of catalog row c: its
\* page, and the page its nextPage field names when that is not 0
tdefReadsOf(k, c) ==
    <<c.id>> \o (IF tdefOf(k, c.name).nextPage > 0 THEN <<tdefOf(k, c.name).nextPage>>
                 ELSE <<>>)

\* C19: parseTdef reads no further page when the nextPage field of the tdef
\* page is 0, and exactly the page it names otherwise; the definition is
\* then parsed from the first page followed by the bytes of that page from
\* offset 8 on; the nextPage field of that second page is not followed.
C19_OneOverflowHop ==
    (last.op = "new" /\ last.ok /\ schemaReadable(scn) /\ scn.cut = 0) =>
        /\ initErr = NoErr
        /\ last.reads
              = <<0, 2, 3, 4>>
                \o Flatten([i \in 1..Len(userRowsOf(scn)) |->
                               tdefReadsOf(scn, userRowsOf(scn)[i])])
        /\ Len(db.schema) = Len(userRowsOf(scn))
        /\ \A i \in 1..Len(db.schema) :
              LET t == tdefOf(scn, userRowsOf(scn)[i].name)
              IN  /\ db.schema[i].nextPage = t.nextPage
                  /\ Len(db.schema[i].cols) = t.numCols
                  /\ Len(db.schema[i].colNames) = t.numCols
                  /\ \A j \in 1..t.numCols :
                        /\ db.schema[i].cols[j].number = t.cols[j].number
                        /\ db.schema[i].cols[j].offsetF = t.cols[j].offsetF
                        /\ db.schema[i].colNames[j].name = t.cols[j].name

\* the definition of B continues on page 12, whose own nextPage field is
\* 11: pages 6 and 12 were read for it and no other, and its last column
\* was parsed
C19_Witness ==
    /\ last.op = "new"
    /\ last.ok
    /\ scn.ovB
    /\ scn.ovNext = 11
    /\ U32(file, 12 * db.config.pageSize + 4) = 11
    /\ last.reads = <<0, 2, 3, 4, 5, 6, 12>>
    /\ Len(db.schema) = 2
    /\ Len(db.schema[2].cols) = ovCols(db.config)
    /\ db.schema[2].cols[ovCols(db.config)].number = ovCols(db.config) - 1

----------------------------------------------------------------------------
(* C20 *)

\* s in UTF-16LE: byte 2i is s[i] and byte 2i + 1 is 0x00
utf16leOf(str) == [i \in 1..(2 * Len(str)) |-> IF i % 2 = 1 THEN str[(i + 1) \div 2] ELSE 0]

\* C20 as stated: for every string s of one-byte characters,
\* decompressUnicode(s, |s|, 2 |s|) is the 2 |s| bytes of s in UTF-16LE.
C20_RoundTrip ==
    last.op = "decompressUnicode" =>
        /\ Len(last.val) = 2 * Len(scn.s)
        /\ last.val = utf16leOf(scn.s)

\* C20: for every string s of one-byte characters none of which is 0x00,
\* decompressUnicode(s, |s|, 2 |s|) is the 2 |s| bytes of s in UTF-16LE.
C20_RoundTripWithoutNul ==
    (last.op = "decompressUnicode" /\ \A i \in 1..Len(scn.s) : scn.s[i] # 0) =>
        /\ Len(last.val) = 2 * Len(scn.s)
        /\ last.val = utf16leOf(scn.s)

\* the three characters 'A', 'a', 0x7F have been decoded to six bytes
C20_Witness ==
    /\ last.op = "decompressUnicode"
    /\ scn.s = <<65, 97, 127>>
    /\ last.val = <<65, 0, 97, 0, 127, 0>>

----------------------------------------------------------------------------
(* C21 *)

\* the reference walk from position pos (1-based) with the compression flag
\* on or off: what it emits, and how many bytes it leaves unread
RECURSIVE refWalk(_, _, _)
refWalk(src, pos, on) ==
    IF pos > Len(src) THEN [out |-> <<>>, left |-> 0, on |-> on]
    ELSE IF src[pos] = 0 THEN refWalk(src, pos + 1, ~on)
    ELSE IF on
    THEN [refWalk(src, pos + 1, on) EXCEPT !.out = <<src[pos], 0>> \o @]
    ELSE IF pos + 1 <= Len(src)
    THEN [refWalk(src, pos + 2, on) EXCEPT !.out = <<src[pos], src[pos + 1]>> \o @]
    ELSE [out |-> <<>>, left |-> 1, on |-> on]

\* C21: decompressUnicode gives what the reference walk emits, for every
\* input: flag on at the start; 0x00 toggles it and emits nothing; with the
\* flag on a byte b gives (b, 0x00); with the flag off two bytes are copied;
\* one byte left with the flag off is dropped.
C21_EqualsReferenceWalk ==
    last.op = "decompressUnicode" => last.val = refWalk(scn.s, 1, TRUE).out

\* the input 'A', 0x00, 'a': expanded, toggled, and a last byte dropped
C21_Witness ==
    /\ last.op = "decompressUnicode"
    /\ scn.s = <<65, 0, 97>>
    /\ last.val = <<65, 0>>
    /\ refWalk(scn.s, 1, TRUE).left = 1

----------------------------------------------------------------------------
(* C29 *)

\* C29: decompressUnicode(src, slen, 2 slen) returns an even number of
\* bytes, at most 2 slen, and has stopped because the input was used up or
\* because one byte was left with compression off, not because of dlen.
C29_OutputBounded ==
    last.op = "decompressUnicode" =>
        /\ Len(last.val) % 2 = 0
        /\ Len(last.val) <= 2 * Len(scn.s)
        /\ Len(last.val) = Len(refWalk(scn.s, 1, TRUE).out)
        /\ \/ refWalk(scn.s, 1, TRUE).left = 0
           \/ refWalk(scn.s, 1, TRUE).left = 1 /\ ~refWalk(scn.s, 1, TRUE).on

\* three bytes with no 0x00 have filled the whole destination of six bytes
C29_Witness ==
    /\ last.op = "decompressUnicode"
    /\ Len(scn.s) = MaxText
    /\ \A i \in 1..Len(scn.s) : scn.s[i] # 0
    /\ Len(last.val) = 2 * MaxText
    /\ refWalk(scn.s, 1, TRUE).left = 0

----------------------------------------------------------------------------
(* C22 *)

\* rows(A) of a file whose table A has a memo column X, all pages whole
memoRows ==
    /\ last.op = "rows"
    /\ last.arg = NameA
    /\ fd = "open"
    /\ rowsReadable([scn EXCEPT !.memo.page = 1, !.memo.row = 0], NameA)
    /\ scn.xtype = 12
    /\ scn.xval = "data"

\* the page of A that holds row r of the result
pageOfRow(r) == readBuffer(file, "open", db.config.pageSize, liveRefsA(scn)[r][1]).v

\* C22: the inline text of a memo column is the memoLen bytes from +12 of
\* the column on, memoLen being the u16 at +0 plus 65536 times the u8 at +2.
C22_MemoLen24Bit ==
    (memoRows /\ scn.memo.mask = 128 /\ last.ok) =>
        \A r \in 1..Len(last.val) :
            LET c == last.val[r].columns[3]
                memoLen == U16(pageOfRow(r), c.rawValue.start)
                           + 65536 * U8(pageOfRow(r), c.rawValue.start + 2)
            IN  c.value = StrV(parseText(db.config,
                                         subarray(pageOfRow(r), c.rawValue.start + 12,
                                                  c.rawValue.start + 12 + memoLen)))

----------------------------------------------------------------------------
(* C23 *)

\* C23: the page read for a memo column kept in a long-value page is
\* floor(v / 256), a number in 0..2^24 - 1, and the slot taken is v mod 256,
\* v = row + 256 * page being the u32 the file holds at +4 of the column.
C23_MemoPageUnsigned ==
    (memoRows /\ scn.memo.mask = 64) =>
        /\ scn.memo.page \in 0..(16777216 - 1)
        /\ scn.memo.row \in 0..255
        /\ Len(last.reads) >= 3
        /\ last.reads[3] = scn.memo.page
        /\ last.ok => \A r \in 1..Len(last.val) :
                          last.val[r].columns[3].value = StrV(lvalText(scn.memo.row))

----------------------------------------------------------------------------
(* C24 *)

\* C24: a memo column with mask 0x80 is the inline text and no page is
\* read; with mask 0x40 it is the text of slot memoRow of page memoPage, one
\* page being read for each column decoded; with any other mask it is
\* "[unknown type]" and no page is read.
C24_MemoDispatch ==
    (memoRows /\ lvalAddressed(scn)) =>
        /\ last.ok
        /\ Len(last.val) = MaxSlots + 1
        /\ last.reads = IF scn.memo.mask = 64
                        THEN <<7, 8>> \o [i \in 1..MaxSlots |-> scn.memo.page]
                             \o <<9, scn.memo.page>>
                        ELSE <<7, 8, 9>>
        /\ \A r \in 1..Len(last.val) :
              LET c == last.val[r].columns[3]
              IN  /\ c.type = 12
                  /\ scn.memo.mask = 128 =>
                        /\ c.value.t = "string"
                        /\ SubSeq(c.value.v, 1, Len(memoText)) = memoText
                        /\ scn.memo.b2 = 0 => c.value = StrV(memoText)
                  /\ scn.memo.mask = 64 => c.value = StrV(lvalText(scn.memo.row))
                  /\ scn.memo.mask \notin {128, 64} => c.value = StrV(SentinelText)

\* rows(A) has taken slot 0 of page 1 for the memo column of each row
C24_Witness ==
    /\ memoRows
    /\ scn.memo = Memo(64, 0, 1, 0)
    /\ last.ok
    /\ last.reads = <<7, 8>> \o [i \in 1..MaxSlots |-> 1] \o <<9, 1>>
    /\ last.val[1].columns[3].value = StrV(lvalText(0))

----------------------------------------------------------------------------
(* C30 *)

\* C30: when a memo column with mask 0x40 names a page that does not begin
\* with 0x01, or a slot the page has not, rows(T) fails and returns no row;
\* when the slot it names carries the deleted flag, its text is returned.
C30_LvalFailureFailsRows ==
    /\ (memoRows /\ isLval(scn) /\ ~lvalAddressed(scn)) =>
          /\ ~last.ok
          /\ last.err # NoErr
          /\ last.val = <<>>
    /\ (memoRows /\ scn.memo = Memo(64, 0, 1, 1)) =>
          /\ last.ok
          /\ \A r \in 1..Len(last.val) :
                last.val[r].columns[3].value = StrV(lvalText(1))

\* rows(A) has failed on a memo column that names slot 2 of the two-slot
\* page 1
C30_Witness ==
    /\ memoRows
    /\ scn.memo = Memo(64, 0, 1, 2)
    /\ ~last.ok
    /\ last.err.kind = "TypeError"
    /\ last.reads = <<7, 8, 1>>
    /\ last.val = <<>>

----------------------------------------------------------------------------
(* C25 *)

\* C25: when a page of T's used-pages list does not begin with 0x01, rows(T)
\* fails with the error of the page parser and returns no row, the rows of
\* the pages decoded before that page included.
C25_BadPageFailsRows ==
    (/\ last.op = "rows"
     /\ last.arg = NameA
     /\ fd = "open"
     /\ rowsReadable([scn EXCEPT !.dataCode = 1, !.dataCode9 = 1], NameA)
     /\ scn.mapA \in {0, 1}
     /\ (scn.dataCode # 1 \/ scn.dataCode9 # 1)) =>
        /\ ~last.ok
        /\ last.err = AssertionError("pagecode")
        /\ last.val = <<>>

\* rows(A) has decoded page 8, which holds live slots, and failed on page 9
C25_Witness ==
    /\ last.op = "rows"
    /\ last.arg = NameA
    /\ scn.dataCode = 1
    /\ scn.dataCode9 = 2
    /\ scn.delA = {}
    /\ last.reads = <<7, 8, 9>>
    /\ ~last.ok
    /\ last.val = <<>>

----------------------------------------------------------------------------
(* C26 *)

\* C26: once init has run to its end, schema has one entry for each entry
\* of userTables, entry i being the tdef of the table userTables[i] names;
\* so columns(name) is the columns of the table called name.
C26_SchemaAligned ==
    /\ (pc = "ready" /\ initErr = NoErr) =>
          /\ Len(db.schema) = Len(db.userTables)
          /\ \A i \in 1..Len(db.schema) :
                /\ db.schema[i].usedPagesPage
                       = tdefOf(scn, userNamesOf(scn)[i]).usedPagesPage
                /\ [j \in 1..Len(db.schema[i].colNames) |-> db.schema[i].colNames[j].name]
                       = colNamesOf(scn, userNamesOf(scn)[i])
    /\ (pc = "ready" /\ initErr = NoErr /\ last.op = "columns"
            /\ isUserName(scn, last.arg)) =>
          /\ last.ok
          /\ last.val = colNamesOf(scn, last.arg)

----------------------------------------------------------------------------
(* C27 *)

Queries == {"tables", "columns", "columnsWithType", "tablesWithRows", "rows", "streamRows"}

\* the outcome recorded for the last call is the outcome r
sameOutcome(r) ==
    /\ last.ok = r.ok
    /\ last.err = r.err
    /\ last.val = (IF r.ok THEN r.v ELSE <<>>)

\* calling the last query again, in the state it has left, gives its
\* outcome again
repeatable ==
    /\ last.op = "tables" => sameOutcome(tables(db))
    /\ last.op = "columns" => sameOutcome(columns(db, last.arg))
    /\ last.op = "columnsWithType" => sameOutcome(columnsWithType(db, last.arg))
    /\ last.op = "tablesWithRows" => sameOutcome(tablesWithRows(db))
    /\ last.op = "rows" => sameOutcome(rows(file, fd, db, last.arg))
    /\ last.op = "streamRows" => sameOutcome(streamRows(file, fd, db, last.arg))

----------------------------------------------------------------------------
(* C28 *)

\* C28: once the reader is closed, tables() and columns(name) read no page
\* and return what they return on the open handle (the user names of the
\* catalog, the column names of the table's tdef), and rows(name) and
\* streamRows(name) fail, on the closed descriptor when the table has a
\* schema entry, and return no row.
C28_AfterClose ==
    (pc = "ready" /\ fd = "closed") =>
        /\ last.op = "tables" =>
              /\ last.reads = <<>>
              /\ scn.catCode = 2 => (last.ok /\ last.val = userNamesOf(scn))
        /\ last.op = "columns" =>
              /\ last.reads = <<>>
              /\ (schemaReadable(scn) /\ isUserName(scn, last.arg)) =>
                    (last.ok /\ last.val = colNamesOf(scn, last.arg))
        /\ last.op \in {"rows", "streamRows"} =>
              /\ ~last.ok
              /\ last.err # NoErr
              /\ last.val = <<>>
              /\ (schemaReadable(scn) /\ isUserName(scn, last.arg)) =>
                    (last.err = EBADF
                     /\ last.reads = <<tdefOf(scn, last.arg).usedPagesPage>>)

\* rows(A) has failed on the closed descriptor of a handle that returned
\* rows before
C28_Witness ==
    /\ pc = "ready"
    /\ fd = "closed"
    /\ nClose = 1
    /\ rowsReadable(scn, NameA)
    /\ last.op = "rows"
    /\ last.arg = NameA
    /\ last.err = EBADF
    /\ last.val = <<>>
    /\ rows(file, "open", db, NameA).ok
    /\ columns(db, NameA).ok

====
